---- MODULE Spec2Model ----
(***************************************************************************)
(* A model of the MIRA memory store (src/src/memory/core.rs), its data     *)
(* types (src/src/lib.rs) and the in-process vector index                  *)
(* (src/src/vector_store/mock_impl.rs), and of the emotional engine        *)
(* (src/src/emotion/emotional_engine.rs).                                  *)
(*                                                                         *)
(* f32 values are kept in fixed point, in units of 1/10000 (One = 1.0).    *)
(* The one non-finite value the code produces, NaN, is the value NaN.      *)
(* A text is the sequence of its characters' code points.  An Option is a  *)
(* sequence of length at most one: <<>> is None, <<x>> is Some(x).         *)
(***************************************************************************)
EXTENDS Integers, Sequences, FiniteSets, TLC

VARIABLES
    short_term_limit,   \* config.short_term_limit, fixed at construction
    memory_cache,       \* MemorySystem.memory_cache : id -> MemoryEntry
    index,              \* the vector store's data : id -> embedding
    now,                \* the reading of Utc::now()
    next_id,            \* how many ids Uuid::new_v4 has handed out
    adding,             \* add_memory calls between store_vector and the insert
    last_add,           \* what the add_memory call that returned last returned
    scored,             \* the arguments add_memory was given for each entry, by id
    stats,              \* the get_memory_stats call in progress, or its result
    retr,               \* the retrieve_memories call in progress, or its result
    retrieves,          \* how many retrieve_memories calls were started
    sweeps,             \* the cleanup tasks spawned by add_memory, each with its cache
    bg,                 \* the task of start_background_cleanup, with its cache
    index_call,         \* the last store_vector or delete_vector call made on the index itself
    engine_state,       \* the EmotionalState the engine's caller holds
    clock,              \* Utc::now() as the engine reads it, in half hours
    engine_calls,       \* how many calls of the engine were made
    last_call,          \* the last call of the engine: what was called, and when
    current_emotion,    \* MemorySystem.current_emotion : the RwLock and its data
    emotion_calls,      \* the update_/get_emotional_state calls, by call id
    analysis            \* the last analyze_interaction call: its arguments and its result

\* the variables of the emotional engine and of the emotional-state slot
engine_vars == <<engine_state, clock, engine_calls, last_call, current_emotion,
                 emotion_calls, analysis>>

vars == <<short_term_limit, memory_cache, index, now, next_id, adding, last_add,
          scored, stats, retr, retrieves, sweeps, bg, index_call, engine_vars>>

----------------------------------------------------------------------------
(* Bounds of the model *)

MaxEntries == 3         \* add_memory calls in one run
MaxTime == 1            \* readings the clock can take beyond the first
MaxRetrieves == 1       \* retrieve_memories calls in one run
MaxShortTermLimit == 2  \* the largest configured short_term_limit
MaxEngineCalls == 2     \* process_trigger and apply_time_decay calls in one run
MaxEmotionCalls == 3    \* update_/get_emotional_state calls in one run

----------------------------------------------------------------------------
(* f32 arithmetic in fixed point *)

One == 10000
NaN == -999999

IsNaN(x) == x = NaN

FAdd(a, b) == IF IsNaN(a) \/ IsNaN(b) THEN NaN ELSE a + b

\* a clamp that has no upper bound
ClampFromBelow(x) == IF IsNaN(x) THEN NaN ELSE IF x < 0 THEN 0 ELSE x

\* f32::clamp(0.0, 1.0): a NaN stays a NaN
Clamp(x) == IF IsNaN(x) THEN NaN ELSE IF x < 0 THEN 0 ELSE IF x > One THEN One ELSE x

\* a.partial_cmp(&b).unwrap_or(Ordering::Equal)
PartialCmpOrEqual(a, b) ==
    IF IsNaN(a) \/ IsNaN(b) THEN "Equal"
    ELSE IF a < b THEN "Less" ELSE IF a > b THEN "Greater" ELSE "Equal"

\* a.cmp(&b) on timestamps
Cmp(a, b) == IF a < b THEN "Less" ELSE IF a > b THEN "Greater" ELSE "Equal"

----------------------------------------------------------------------------
(* Data types (lib.rs) *)

MemoryTypes == {"ShortTerm", "LongTerm", "Emotional", "Preference", "Relationship"}

\* EmotionalState::default(): happiness, affection, trust, dependency
DefaultEmotionalState ==
    [happiness |-> 5000, affection |-> 3000, trust |-> 3000, dependency |-> 2000]

\* MemoryConfig::default().similarity_threshold
similarity_threshold == 8000

\* limit.unwrap_or(10) in retrieve_memories
DefaultLimit == 10

\* MemoryEntry::new.  The fields kept are the ones the store reads again after
\* add_memory: content, keywords, emotional_context, created_at and metadata
\* are only inputs of the embedding and of the importance.
NewMemoryEntry(id, memory_type, importance, t) ==
    [id |-> id,
     memory_type |-> memory_type,
     embedding |-> <<>>,
     importance |-> Clamp(importance),
     last_accessed |-> t,
     access_count |-> 0]

\* an access that sets the time and leaves the count
MarkAccessedUncounted(entry, t) ==
    [entry EXCEPT !.last_accessed = t]

\* MemoryEntry::mark_accessed
MarkAccessed(entry, t) ==
    [entry EXCEPT !.last_accessed = t, !.access_count = @ + 1]

\* MemoryEntry::update_importance
UpdateImportance(entry, delta) ==
    [entry EXCEPT !.importance = Clamp(FAdd(@, delta))]

----------------------------------------------------------------------------
(* generate_embedding (core.rs) and cosine_similarity (mock_impl.rs) *)

\* generate_embedding never returns Err.  The feature of the character at
\* position i takes the square root of char_code * cos(i), and cos(2) < 0:
\* a text of three or more characters has a NaN feature, and every
\* component of its vector is NaN (norm > 0.0 is then false, so the vector
\* is not normalised either).  The feature of the character at position j
\* enters every component times sqrt(j), so the first character never
\* counts: the vector of a text of at most two characters is a function of
\* its second character alone (c2, 0 when there is none).
embedding_size == 768

GenerateEmbedding(text) ==
    IF Len(text) >= 3 THEN [len |-> embedding_size, nan |-> TRUE, c2 |-> 0]
    ELSE [len |-> embedding_size, nan |-> FALSE,
          c2 |-> IF Len(text) = 2 THEN text[2] ELSE 0]

\* The cosine of two finite vectors of generate_embedding, as f32 arithmetic
\* gives it, rounded to 1/10000, for second characters 'b' (98), U+54AA
\* (21674) and none (0).
CosineOfFinite(c, d) ==
    LET lo == IF c < d THEN c ELSE d
        hi == IF c < d THEN d ELSE c
    IN  CASE lo = hi -> One
          [] lo = 0 /\ hi = 98 -> 9987
          [] lo = 0 /\ hi = 21674 -> 4779
          [] lo = 98 /\ hi = 21674 -> 5213

\* MockVectorStore::cosine_similarity: 0.0 for vectors of different
\* lengths; a vector of generate_embedding has a norm that is positive or NaN
CosineSimilarity(a, b) ==
    IF a.len # b.len THEN 0
    ELSE IF a.nan \/ b.nan THEN NaN ELSE CosineOfFinite(a.c2, b.c2)

----------------------------------------------------------------------------
(* calculate_contextual_importance (core.rs) *)

RoundDiv(a, b) == (2 * a + b) \div (2 * b)

\* factor + sum over i < 100 of sin(factor * i) * sqrt(i) * 0.001
IntensityOf(factor) ==
    CASE factor = 0 -> 0
      [] factor = 2000 -> 1832
      [] factor = 3000 -> 3031
      [] factor = 5000 -> 4841
      [] factor = 8000 -> 8070
      [] factor = 10000 -> 9952

EmotionalIntensity(emotion) ==
    RoundDiv(IntensityOf(emotion.happiness) + IntensityOf(emotion.affection)
             + IntensityOf(emotion.trust) + IntensityOf(emotion.dependency), 4)

\* The score of one keyword: the character at position i adds
\* sqrt(char_value * cos(i)) * 0.0001, which is NaN from the third
\* character on; 'ab' scores 0.1190.
KeywordScore(keyword) ==
    IF Len(keyword) >= 3 THEN NaN
    ELSE CASE keyword = <<97, 98>> -> 1190

RECURSIVE KeywordImportance(_)
KeywordImportance(keywords) ==
    IF keywords = <<>> THEN 0
    ELSE FAdd(KeywordImportance(Tail(keywords)), KeywordScore(Head(keywords)))

FScaleTenth(x) == IF IsNaN(x) THEN NaN ELSE RoundDiv(x, 10)

\* sum over i < 50 of sin(importance * i) * 0.001
FinalDrift(x) ==
    CASE x = 0 -> 0
      [] x = 74 -> 90
      [] x = 119 -> 142
      [] x = 193 -> 219
      [] x = 238 -> 259
      [] x = 955 -> 103
      [] x = 1074 -> 40
      [] x = 1193 -> 6
      [] x = 1986 -> 97
      [] x = 2000 -> 94
      [] x = 2105 -> 73
      [] x = 2119 -> 70
      [] x = 2224 -> 44
      [] x = 2238 -> 41
      [] x = 2955 -> 50
      [] x = 2986 -> 53
      [] x = 3000 -> 55
      [] x = 3074 -> 61
      [] x = 3105 -> 62
      [] x = 3119 -> 63
      [] x = 3193 -> 62
      [] x = 3224 -> 61
      [] x = 3238 -> 60
      [] x = 3955 -> 6
      [] x = 4074 -> 18
      [] x = 4193 -> 31
      [] x = 4986 -> 1
      [] x = 5000 -> 1
      [] x = 5105 -> 0
      [] x = 5119 -> 0
      [] x = 5224 -> 4
      [] x = 5238 -> 5
      [] x = 5955 -> 22
      [] x = 5986 -> 20
      [] x = 6000 -> 19
      [] x = 6074 -> 12
      [] x = 6105 -> 10
      [] x = 6119 -> 9
      [] x = 6193 -> 4
      [] x = 6224 -> 2
      [] x = 6238 -> 2
      [] x = 6955 -> 28
      [] x = 7074 -> 26
      [] x = 7193 -> 20
      [] x = 7986 -> 15
      [] x = 8000 -> 16
      [] x = 8105 -> 21
      [] x = 8119 -> 22
      [] x = 8224 -> 24
      [] x = 8238 -> 24
      [] x = 8955 -> 0
      [] x = 8986 -> 0
      [] x = 9000 -> 1
      [] x = 9074 -> 3
      [] x = 9105 -> 5
      [] x = 9119 -> 6
      [] x = 9193 -> 10
      [] x = 9224 -> 11
      [] x = 9238 -> 12
      [] x = 9955 -> 3
      [] x = 10000 -> 2

TypeBias(memory_type, importance) ==
    IF memory_type \in {"Emotional", "Relationship"} THEN Clamp(FAdd(importance, 2000))
    ELSE IF memory_type = "ShortTerm" THEN Clamp(FAdd(importance, -1000))
    ELSE importance

CalculateContextualImportance(memory_type, importance, emotional_context, keywords) ==
    LET with_emotion ==
            IF emotional_context # <<>>
            THEN Clamp(FAdd(importance,
                            RoundDiv(EmotionalIntensity(emotional_context[1]) * 3, 10)))
            ELSE importance
        with_keywords ==
            Clamp(FAdd(with_emotion, FScaleTenth(KeywordImportance(keywords))))
        with_type == TypeBias(memory_type, with_keywords)
    IN  IF IsNaN(with_type) THEN NaN
        ELSE Clamp(with_type + FinalDrift(with_type))

----------------------------------------------------------------------------
(* slice::sort_by: the standard library's stable sort is an insertion sort *)
(* on slices of at most 20 elements: each element in turn moves left past  *)
(* the elements it is less than.                                           *)

\* the closure of retrieve_memories' sort_by returning Ordering::Less
RetrieveIsLess(a, b) ==
    LET importance_cmp == PartialCmpOrEqual(b.importance, a.importance)
    IN  (IF importance_cmp = "Equal"
         THEN Cmp(b.last_accessed, a.last_accessed)
         ELSE importance_cmp) = "Less"

\* the closure of cleanup_short_term_memories' sort_by returning Ordering::Less
CleanupIsLess(a, b) ==
    LET importance_cmp == PartialCmpOrEqual(a.importance, b.importance)
    IN  (IF importance_cmp = "Equal"
         THEN Cmp(a.last_accessed, b.last_accessed)
         ELSE importance_cmp) = "Less"

Front(s) == SubSeq(s, 1, Len(s) - 1)

RECURSIVE RetrieveInsert(_, _)
RetrieveInsert(s, x) ==
    IF s # <<>> /\ RetrieveIsLess(x, s[Len(s)])
    THEN Append(RetrieveInsert(Front(s), x), s[Len(s)])
    ELSE Append(s, x)

RECURSIVE RetrieveSort(_)
RetrieveSort(s) ==
    IF s = <<>> THEN <<>> ELSE RetrieveInsert(RetrieveSort(Front(s)), s[Len(s)])

RECURSIVE CleanupInsert(_, _)
CleanupInsert(s, x) ==
    IF s # <<>> /\ CleanupIsLess(x, s[Len(s)])
    THEN Append(CleanupInsert(Front(s), x), s[Len(s)])
    ELSE Append(s, x)

RECURSIVE CleanupSort(_)
CleanupSort(s) ==
    IF s = <<>> THEN <<>> ELSE CleanupInsert(CleanupSort(Front(s)), s[Len(s)])

\* iter().take(n)
Take(s, n) == SubSeq(s, 1, IF n < Len(s) THEN n ELSE Len(s))

\* the orders in which an iteration over a hash map can yield the keys S
Orders(S) ==
    {p \in [1..Cardinality(S) -> S] : \A i, j \in 1..Cardinality(S) : p[i] = p[j] => i = j}

----------------------------------------------------------------------------
(* The vector index (mock_impl.rs) *)

\* MockVectorStore::store_vector: HashMap::insert
StoreVector(data, id, embedding) ==
    [i \in DOMAIN data \cup {id} |-> IF i = id THEN embedding ELSE data[i]]

\* VectorData { id, embedding, metadata }: the embedding with its payload
VectorData(embedding, metadata) ==
    [len |-> embedding.len, nan |-> embedding.nan, c2 |-> embedding.c2,
     metadata |-> metadata]

\* a delete_vector that answers Ok whether or not the id was stored
DeleteVectorAlwaysOk(data, id) ==
    [result |-> "Ok", data |-> [i \in DOMAIN data \ {id} |-> data[i]]]

\* MockVectorStore::delete_vector: HashMap::remove, Err when nothing was removed
DeleteVector(data, id) ==
    IF id \in DOMAIN data
    THEN [result |-> "Ok", data |-> [i \in DOMAIN data \ {id} |-> data[i]]]
    ELSE [result |-> "Err", data |-> data]

\* no store_vector or delete_vector call was made on the index itself
NoIndexCall ==
    [op |-> "none", id |-> 0, data |-> <<>>, present |-> FALSE, result |-> "none",
     found |-> <<>>]

\* *similarity >= threshold, false for a NaN
AtLeast(similarity, threshold) == ~IsNaN(similarity) /\ similarity >= threshold

\* a search that takes the first limit of the accepted vectors in any order
SearchSimilarUnsorted(data, query_embedding, limit, threshold) ==
    LET similarity(id) == CosineSimilarity(query_embedding, data[id])
        similarities == {id \in DOMAIN data : AtLeast(similarity(id), threshold)}
    IN  {Take(p, limit) : p \in Orders(similarities)}

\* MockVectorStore::search_similar: the results it can return.  The stable
\* sort by similarity keeps vectors of equal similarity in the order of
\* data.values(), which is any order.
SearchSimilar(data, query_embedding, limit, threshold) ==
    LET similarity(id) == CosineSimilarity(query_embedding, data[id])
        similarities == {id \in DOMAIN data : AtLeast(similarity(id), threshold)}
        sorted == {p \in Orders(similarities) :
                     \A i, j \in 1..Len(p) : i < j => similarity(p[i]) >= similarity(p[j])}
    IN  {Take(p, limit) : p \in sorted}

----------------------------------------------------------------------------
(* cleanup_short_term_memories (core.rs), on the cache it is handed *)

\* a scan that takes every entry of the cache
AllIds(cache) == DOMAIN cache

ShortTermIds(cache) == {id \in DOMAIN cache : cache[id].memory_type = "ShortTerm"}

ShortTermCount(cache) == Cardinality(ShortTermIds(cache))

\* removals that take one entry more than the excess
CleanupEvictOneMore(cache, short_term_count, limit) ==
    {LET short_term_entries == CleanupSort([i \in 1..Len(order) |-> cache[order[i]]])
         to_remove == short_term_count - limit + 1
         removed == {short_term_entries[i].id : i \in 1..Len(Take(short_term_entries, to_remove))}
     IN  [id \in DOMAIN cache \ removed |-> cache[id]]
     : order \in Orders(ShortTermIds(cache))}

\* the second scan, the sort and the removals; the scan yields the entries
\* in any order.  The caches the sweep can leave.
CleanupEvict(cache, short_term_count, limit) ==
    {LET short_term_entries == CleanupSort([i \in 1..Len(order) |-> cache[order[i]]])
         to_remove == short_term_count - limit
         removed == {short_term_entries[i].id : i \in 1..Len(Take(short_term_entries, to_remove))}
     IN  [id \in DOMAIN cache \ removed |-> cache[id]]
     : order \in Orders(ShortTermIds(cache))}

----------------------------------------------------------------------------
(* The emotional engine (emotional_engine.rs).  The moods are written in   *)
(* English: "elated", "happy", "calm", "a little sad" and "very sad" are   *)
(* the five moods of calculate_mood, in descending order; "shy", "sad" and *)
(* "content" are the other moods the default rules set.                    *)

\* f32 multiplication and absolute value
FMul(a, b) == IF IsNaN(a) \/ IsNaN(b) THEN NaN ELSE RoundDiv(a * b, One)

FAbs(x) == IF IsNaN(x) THEN NaN ELSE IF x < 0 THEN -x ELSE x

\* f32::min, which returns the other operand when one is NaN
FMin(a, b) == IF IsNaN(a) THEN b ELSE IF IsNaN(b) THEN a ELSE IF a < b THEN a ELSE b

EmotionalTriggers ==
    {"PositiveInteraction", "NegativeInteraction", "BeingIgnored", "BeingPraised",
     "BeingCriticized", "SharingSecret", "LongConversation", "UserSadness", "UserHappiness"}

EmotionalRule(happiness_delta, affection_delta, trust_delta, dependency_delta, mood_change) ==
    [happiness_delta |-> happiness_delta, affection_delta |-> affection_delta,
     trust_delta |-> trust_delta, dependency_delta |-> dependency_delta,
     mood_change |-> mood_change]

\* init_default_rules: the rules of EmotionalEngine::new
DefaultRules ==
    [trigger \in {"PositiveInteraction", "BeingPraised", "NegativeInteraction",
                  "LongConversation"} |->
        CASE trigger = "PositiveInteraction" -> EmotionalRule(1000, 500, 300, 200, <<"happy">>)
          [] trigger = "BeingPraised" -> EmotionalRule(1500, 1000, 500, 300, <<"shy">>)
          [] trigger = "NegativeInteraction" -> EmotionalRule(-1000, -300, -500, 100, <<"sad">>)
          [] trigger = "LongConversation" -> EmotionalRule(500, 800, 200, 500, <<"content">>)]

\* a lookup that answers a trigger without a rule with a rule of no change
RulesGetOrDefault(rules, trigger) ==
    IF trigger \in DOMAIN rules THEN <<rules[trigger]>>
    ELSE <<EmotionalRule(0, 0, 0, 0, <<>>)>>

\* self.rules.get(&trigger)
RulesGet(rules, trigger) == IF trigger \in DOMAIN rules THEN <<rules[trigger]>> ELSE <<>>

\* EmotionalDecayConfig::default()
base_decay_rate == 500

decay_interval_hours == 24

minimum_values == [happiness |-> 3000, affection |-> 2000, trust |-> 2000, dependency |-> 1000]

\* the cap of the decay factor in apply_time_decay
MaxDecayFactor == 5000

\* An EmotionalState
EmotionalState(happiness, affection, trust, dependency, mood, timestamp) ==
    [happiness |-> happiness, affection |-> affection, trust |-> trust,
     dependency |-> dependency, mood |-> mood, timestamp |-> timestamp]

\* EmotionalState::default() made at time t
NewEmotionalState(t) ==
    EmotionalState(DefaultEmotionalState.happiness, DefaultEmotionalState.affection,
                   DefaultEmotionalState.trust, DefaultEmotionalState.dependency, "calm", t)

\* calculate_mood: the mean of three scalars against 0.8, 0.6, 0.4 and 0.2,
\* compared as the sum against three times the threshold; a comparison with
\* NaN is false
CalculateMood(state) ==
    LET sum == FAdd(FAdd(state.happiness, state.affection), state.trust)
    IN  IF IsNaN(sum) THEN "very sad"
        ELSE IF sum >= 3 * 8000 THEN "elated"
        ELSE IF sum >= 3 * 6000 THEN "happy"
        ELSE IF sum >= 3 * 4000 THEN "calm"
        ELSE IF sum >= 3 * 2000 THEN "a little sad"
        ELSE "very sad"

\* a scalar that takes the whole delta whatever the intensity
TriggeredUnscaled(value, delta, intensity) == Clamp(FAdd(value, delta))

\* the new value of one scalar in process_trigger
Triggered(value, delta, intensity) == Clamp(FAdd(value, FMul(delta, intensity)))

\* a process_trigger that recomputes the mood whatever the rule says
ProcessTriggerRecomputed(rules, current_state, trigger, intensity, t) ==
    LET clamped == Clamp(intensity)
        rule == RulesGet(rules, trigger)
    IN  IF rule = <<>> THEN current_state
        ELSE LET new_state ==
                     [current_state EXCEPT
                         !.happiness = Triggered(@, rule[1].happiness_delta, clamped),
                         !.affection = Triggered(@, rule[1].affection_delta, clamped),
                         !.trust = Triggered(@, rule[1].trust_delta, clamped),
                         !.dependency = Triggered(@, rule[1].dependency_delta, clamped)]
             IN  [new_state EXCEPT !.mood = CalculateMood(new_state), !.timestamp = t]

\* process_trigger, Utc::now() reading t
ProcessTrigger(rules, current_state, trigger, intensity, t) ==
    LET clamped == Clamp(intensity)
        rule == RulesGet(rules, trigger)
    IN  IF rule = <<>> THEN current_state
        ELSE LET new_state ==
                     [current_state EXCEPT
                         !.happiness = Triggered(@, rule[1].happiness_delta, clamped),
                         !.affection = Triggered(@, rule[1].affection_delta, clamped),
                         !.trust = Triggered(@, rule[1].trust_delta, clamped),
                         !.dependency = Triggered(@, rule[1].dependency_delta, clamped)]
             IN  [new_state EXCEPT
                     !.mood = IF rule[1].mood_change # <<>> THEN rule[1].mood_change[1]
                              ELSE CalculateMood(new_state),
                     !.timestamp = t]

\* a decay that lowers a scalar whichever side of the target it is on
ApplyDecayDownward(current, target, decay_factor) ==
    LET change == FMul(FAbs(FAdd(current, -target)), decay_factor)
    IN  Clamp(FAdd(current, IF IsNaN(change) THEN NaN ELSE -change))

\* apply_decay
ApplyDecay(current, target, decay_factor) ==
    LET direction == IF ~IsNaN(current) /\ current > target THEN -1 ELSE 1
        change == FMul(FAbs(FAdd(current, -target)), decay_factor)
    IN  Clamp(FAdd(current, IF IsNaN(change) THEN NaN ELSE change * direction))

\* the hours of a duration in half hours, rounded to the nearest
NumHoursRounded(duration) == (duration + 1) \div 2

\* Duration::num_hours of a duration in half hours: the whole hours, toward zero
NumHours(duration) == IF duration >= 0 THEN duration \div 2 ELSE -((-duration) \div 2)

\* a decay factor without the cap
DecayFactorUncapped(hours_passed) ==
    RoundDiv(base_decay_rate * hours_passed, decay_interval_hours)

\* the decay factor of apply_time_decay for the hours passed
DecayFactor(hours_passed) ==
    FMin(RoundDiv(base_decay_rate * hours_passed, decay_interval_hours), MaxDecayFactor)

\* a decay that leaves the timestamp of the state it was given
ApplyTimeDecayStale(state, t) ==
    LET hours_passed == NumHours(t - state.timestamp)
    IN  IF hours_passed < decay_interval_hours THEN state
        ELSE LET decay_factor == DecayFactor(hours_passed)
                 new_state ==
                     [state EXCEPT
                         !.happiness = ApplyDecay(@, minimum_values.happiness, decay_factor),
                         !.affection = ApplyDecay(@, minimum_values.affection, decay_factor),
                         !.trust = ApplyDecay(@, minimum_values.trust, decay_factor),
                         !.dependency = ApplyDecay(@, minimum_values.dependency, decay_factor)]
             IN  [new_state EXCEPT !.mood = CalculateMood(new_state)]

\* apply_time_decay, Utc::now() reading t
ApplyTimeDecay(state, t) ==
    LET hours_passed == NumHours(t - state.timestamp)
    IN  IF hours_passed < decay_interval_hours THEN state
        ELSE LET decay_factor == DecayFactor(hours_passed)
                 new_state ==
                     [state EXCEPT
                         !.happiness = ApplyDecay(@, minimum_values.happiness, decay_factor),
                         !.affection = ApplyDecay(@, minimum_values.affection, decay_factor),
                         !.trust = ApplyDecay(@, minimum_values.trust, decay_factor),
                         !.dependency = ApplyDecay(@, minimum_values.dependency, decay_factor)]
             IN  [new_state EXCEPT !.mood = CalculateMood(new_state), !.timestamp = t]

\* str::to_lowercase on the characters of the texts below: the letters A to
\* Z become a to z, the CJK characters and the punctuation have no case
ToLowercase(text) ==
    [i \in 1..Len(text) |-> IF text[i] \in 65..90 THEN text[i] + 32 ELSE text[i]]

\* str::contains
Contains(text, pattern) ==
    \E i \in 1..(Len(text) - Len(pattern) + 1) :
        SubSeq(text, i, i + Len(pattern) - 1) = pattern

\* the keyword arrays of analyze_interaction, as code points
positive_keywords ==
    <<<<21916, 27426>>, <<29233>>, <<24320, 24515>>, <<39640, 20852>>, <<26834>>,
      <<22909>>, <<35874, 35874>>, <<24863, 35874>>>>

negative_keywords ==
    <<<<35752, 21388>>, <<28902>>, <<29983, 27668>>, <<38590, 36807>>, <<19981, 22909>>,
      <<31967, 31957>>>>

praise_keywords ==
    <<<<32874, 26126>>, <<21487, 29233>>, <<28418, 20142>>, <<26834>>, <<21385, 23475>>,
      <<23436, 32654>>>>

\* keywords.iter().filter(|keyword| input_lower.contains(keyword)).count()
KeywordCount(input_lower, keywords) ==
    Cardinality({i \in 1..Len(keywords) : Contains(input_lower, keywords[i])})

\* the trigger a keyword category pushes: none without a hit, else the
\* trigger with count as f32 * weight
CountTrigger(trigger, count, weight) ==
    IF count > 0 THEN <<[trigger |-> trigger, intensity |-> count * weight]>> ELSE <<>>

\* a conversation that is long from ten short-term memories on
IsLongConversationFromTen(recent_memories) == recent_memories >= 10

\* the test recent_memories > 10
IsLongConversation(recent_memories) == recent_memories > 10

\* analyze_interaction; of a memory only its memory_type is read
AnalyzeInteraction(user_input, memories) ==
    LET input_lower == ToLowercase(user_input)
        positive_count == KeywordCount(input_lower, positive_keywords)
        negative_count == KeywordCount(input_lower, negative_keywords)
        praise_count == KeywordCount(input_lower, praise_keywords)
        recent_memories ==
            Cardinality({i \in 1..Len(memories) : memories[i] = "ShortTerm"})
    IN  CountTrigger("PositiveInteraction", positive_count, 3000)
        \o CountTrigger("NegativeInteraction", negative_count, 4000)
        \o CountTrigger("BeingPraised", praise_count, 5000)
        \o (IF IsLongConversation(recent_memories)
            THEN <<[trigger |-> "LongConversation", intensity |-> 3000]>>
            ELSE <<>>)

\* a caller that applies the first of the triggers and drops the others
ProcessTriggersFirstOnly(rules, current_state, triggers, t) ==
    IF triggers = <<>> THEN current_state
    ELSE ProcessTrigger(rules, current_state, triggers[1].trigger, triggers[1].intensity, t)

\* the loop of the engine's callers over the triggers analyze_interaction
\* returned: for (trigger, intensity) in triggers { current_emotion =
\* process_trigger(&current_emotion, trigger, intensity) }, each call
\* reading the time t
RECURSIVE ProcessTriggers(_, _, _, _)
ProcessTriggers(rules, current_state, triggers, t) ==
    IF triggers = <<>> THEN current_state
    ELSE ProcessTriggers(rules,
                         ProcessTrigger(rules, current_state, triggers[1].trigger,
                                        triggers[1].intensity, t),
                         Tail(triggers), t)

\* the states the engine's caller starts from: the default state, the
\* highest, the lowest, and one with scalars in three different bands
StartStates ==
    {NewEmotionalState(0),
     EmotionalState(One, One, One, One, "elated", 0),
     EmotionalState(0, 0, 0, 0, "very sad", 0),
     EmotionalState(9000, 6500, 2500, 500, "happy", 0)}

----------------------------------------------------------------------------
(* The state after MemorySystem::new *)

\* no get_memory_stats call yet: the map a call builds, without its "total"
\* entry, and the total
NoStats == [pc |-> "idle", counts |-> <<>>, total |-> 0]

NoRetrieve ==
    [pc |-> "idle", error |-> "", limit |-> 0, memory_types |-> <<>>,
     query_embedding |-> <<>>, similar_ids |-> <<>>, memories |-> <<>>]

NoBackground == [state |-> "none", pc |-> "sleep", cache |-> <<>>, short_term_count |-> 0]

\* MemoryConfig::default().short_term_limit
DefaultShortTermLimit == 100

\* no analyze_interaction call yet
NoAnalysis == [user_input |-> <<>>, memories |-> <<>>, triggers |-> <<>>]

\* the RwLock of current_emotion: its data, the call that holds the write
\* guard (0: none), the calls that hold a read guard, and the call that took
\* the write guard last (0: none)
NewRwLock(data) == [data |-> data, writer |-> 0, readers |-> {}, last |-> 0]

\* the engine's caller holds one of the states and no call was made; the
\* slot holds EmotionalState::default()
InitEmotion(states) ==
    /\ engine_state \in states
    /\ clock = 0
    /\ engine_calls = 0
    /\ last_call = [op |-> "none", trigger |-> "", intensity |-> 0, duration |-> 0]
    /\ current_emotion = NewRwLock(NewEmotionalState(0))
    /\ emotion_calls = <<>>
    /\ analysis = NoAnalysis

InitMemory(limits) ==
    /\ short_term_limit \in limits
    /\ memory_cache = <<>>
    /\ index = <<>>
    /\ now = 0
    /\ next_id = 0
    /\ adding = {}
    /\ last_add = [status |-> "none", id |-> 0]
    /\ scored = <<>>
    /\ stats = NoStats
    /\ retr = NoRetrieve
    /\ retrieves = 0
    /\ sweeps = {}
    /\ bg = NoBackground
    /\ index_call = NoIndexCall

InitWith(limits) == InitMemory(limits) /\ InitEmotion({NewEmotionalState(0)})

\* a store configured with a short_term_limit the model's adds can exceed
Init == InitWith(1..MaxShortTermLimit)

\* a store with the default configuration
InitDefault == InitWith({DefaultShortTermLimit})

\* The readings Utc::now() can give after the reading now: the clock does
\* not go back, and two readings can be equal
Readings(t) == {u \in t..(t + 1) : u <= MaxTime}

----------------------------------------------------------------------------
(* add_memory *)

\* DashMap::insert
CacheInsert(cache, entry) ==
    [i \in DOMAIN cache \cup {entry.id} |-> IF i = entry.id THEN entry ELSE cache[i]]

\* the task tokio::spawn is handed: self.memory_cache.clone() is evaluated
\* before the spawn and DashMap's Clone copies the map, so the task owns a
\* copy of the cache as it is at this moment
SpawnCleanup(tasks, entry, cache) ==
    IF entry.memory_type = "ShortTerm"
    THEN tasks \cup {[id |-> entry.id, cache |-> cache, pc |-> "count",
                      short_term_count |-> 0]}
    ELSE tasks

\* the arguments of the add_memory call that made the entry id, kept to
\* compare the entry with them
Arguments(log, id, memory_type, content, keywords, importance, emotional_context) ==
    [i \in DOMAIN log \cup {id} |->
        IF i = id
        THEN [memory_type |-> memory_type, content |-> content, keywords |-> keywords,
              importance |-> importance, emotional_context |-> emotional_context]
        ELSE log[i]]

\* lines 62-78: the insert, the spawn and the return
AddInsert(entry) ==
    /\ memory_cache' = CacheInsert(memory_cache, entry)
    /\ sweeps' = SpawnCleanup(sweeps, entry, memory_cache')
    /\ last_add' = [status |-> "Ok", id |-> entry.id]

\* lines 39-49: the entry with its embedding and its adjusted importance
AddEntry(id, memory_type, content, keywords, importance, emotional_context, embedding, t) ==
    LET entry == NewMemoryEntry(id, memory_type, importance, t)
    IN  [entry EXCEPT
            !.embedding = embedding,
            !.importance = CalculateContextualImportance(
                               memory_type, entry.importance, emotional_context, keywords)]

\* a call that goes on to the insert before the vector is in the index
AddStoredLater(entry) ==
    /\ adding' = adding \cup {entry}
    /\ UNCHANGED <<memory_cache, sweeps, last_add, index>>

\* store_vector(..).await returned Ok: the vector is in the index and the
\* call goes on to the insert
AddStored(entry) ==
    /\ index' = StoreVector(index, entry.id, entry.embedding[1])
    /\ adding' = adding \cup {entry}
    /\ UNCHANGED <<memory_cache, sweeps, last_add>>

\* the failure of store_vector dropped instead of returned: the call goes on
\* to the insert and the spawn
AddStoreFailedDropped(entry) ==
    /\ AddInsert(entry)
    /\ UNCHANGED <<index, adding>>

\* store_vector(..).await returned Err: map_err(..)? returns VectorStoreError
AddStoreFailed(entry) ==
    /\ last_add' = [status |-> "VectorStoreError", id |-> 0]
    /\ UNCHANGED <<memory_cache, sweeps, index, adding>>

\* add_memory up to the end of store_vector(..).await.  One add_memory call
\* awaits the index at a time.
AddMemory(types, contents, keyword_lists, importances, contexts) ==
    /\ next_id < MaxEntries
    /\ adding = {}
    /\ \E memory_type \in types, content \in contents, keywords \in keyword_lists,
          importance \in importances, emotional_context \in contexts, stored \in BOOLEAN,
          t \in Readings(now) :
          LET entry == AddEntry(next_id + 1, memory_type, content, keywords, importance,
                                emotional_context, <<GenerateEmbedding(content)>>, t)
          IN  /\ next_id' = next_id + 1
              /\ now' = t
              /\ IF stored THEN AddStored(entry) ELSE AddStoreFailed(entry)
              /\ scored' = IF stored
                           THEN Arguments(scored, entry.id, memory_type, content, keywords,
                                          importance, emotional_context)
                           ELSE scored
    /\ UNCHANGED <<engine_vars, index_call, stats, short_term_limit, retr, retrieves, bg>>

\* add_memory after store_vector(..).await returned Ok
AddMemoryInsert ==
    /\ \E entry \in adding :
          /\ AddInsert(entry)
          /\ adding' = adding \ {entry}
    /\ UNCHANGED <<engine_vars, index_call, stats, scored, short_term_limit, index, now, next_id, retr, retrieves, bg>>

\* add_memory storing an empty vector for an entry that has no embedding
AddMemoryEmptyVector(types, keyword_lists, importances, contexts) ==
    /\ next_id < MaxEntries
    /\ \E memory_type \in types, keywords \in keyword_lists,
          importance \in importances, emotional_context \in contexts,
          t \in Readings(now) :
          /\ AddInsert(AddEntry(next_id + 1, memory_type, <<>>, keywords, importance,
                                emotional_context, <<>>, t))
          /\ scored' = Arguments(scored, next_id + 1, memory_type, <<>>, keywords,
                                 importance, emotional_context)
          /\ now' = t
    /\ index' = StoreVector(index, next_id + 1, GenerateEmbedding(<<>>))
    /\ next_id' = next_id + 1
    /\ UNCHANGED <<engine_vars, index_call, stats, short_term_limit, adding, retr, retrieves, bg>>

\* add_memory when generate_embedding returns Err: embedding.ok() is None,
\* nothing is stored in the index and nothing is awaited before the insert
AddMemoryNoEmbedding(types, keyword_lists, importances, contexts) ==
    /\ next_id < MaxEntries
    /\ \E memory_type \in types, keywords \in keyword_lists,
          importance \in importances, emotional_context \in contexts,
          t \in Readings(now) :
          /\ AddInsert(AddEntry(next_id + 1, memory_type, <<>>, keywords, importance,
                                emotional_context, <<>>, t))
          /\ scored' = Arguments(scored, next_id + 1, memory_type, <<>>, keywords,
                                 importance, emotional_context)
          /\ now' = t
    /\ next_id' = next_id + 1
    /\ UNCHANGED <<engine_vars, index_call, stats, short_term_limit, index, adding, retr, retrieves, bg>>

----------------------------------------------------------------------------
(* The spawned cleanup tasks *)

\* the first scan and the test short_term_count > limit; a task that finds
\* nothing to remove ends, and its cache is dropped
CleanupCount ==
    /\ \E task \in sweeps :
          /\ task.pc = "count"
          /\ LET short_term_count == ShortTermCount(task.cache)
             IN  sweeps' = (sweeps \ {task}) \cup
                     IF short_term_count > short_term_limit
                     THEN {[task EXCEPT !.short_term_count = short_term_count,
                                        !.pc = "rank"]}
                     ELSE {}
    /\ UNCHANGED <<engine_vars, index_call, stats, scored, short_term_limit, memory_cache, index, now, next_id, adding, last_add,
                   retr, retrieves, bg>>

\* the removals, on the task's cache; the task ends and its cache is dropped
CleanupRemove ==
    /\ \E task \in sweeps :
          /\ task.pc = "rank"
          /\ \E left \in CleanupEvict(task.cache, task.short_term_count, short_term_limit) :
                sweeps' = sweeps \ {task}
    /\ UNCHANGED <<engine_vars, index_call, stats, scored, short_term_limit, memory_cache, index, now, next_id, adding, last_add,
                   retr, retrieves, bg>>

----------------------------------------------------------------------------
(* start_background_cleanup *)

\* the cache is cloned once, before the spawn; the task sweeps that copy
StartBackgroundCleanup ==
    /\ bg.state = "none"
    /\ bg' = [state |-> "running", pc |-> "sleep", cache |-> memory_cache,
              short_term_count |-> 0]
    /\ UNCHANGED <<engine_vars, index_call, stats, scored, short_term_limit, memory_cache, index, now, next_id, adding, last_add,
                   retr, retrieves, sweeps>>

\* cleanup_interval.tick().await returns
BackgroundWake ==
    /\ bg.state = "running"
    /\ bg.pc = "sleep"
    /\ bg' = [bg EXCEPT !.pc = "count"]
    /\ UNCHANGED <<engine_vars, index_call, stats, scored, short_term_limit, memory_cache, index, now, next_id, adding, last_add,
                   retr, retrieves, sweeps>>

\* the scan of the background task with the test short_term_count >= limit
BackgroundCountFromLimit ==
    /\ bg.pc = "count"
    /\ LET short_term_count == ShortTermCount(bg.cache)
       IN  bg' = [bg EXCEPT !.short_term_count = short_term_count,
                            !.pc = IF short_term_count >= short_term_limit
                                   THEN "rank" ELSE "sleep"]
    /\ UNCHANGED <<engine_vars, index_call, stats, scored, short_term_limit, memory_cache, index, now, next_id, adding, last_add,
                   retr, retrieves, sweeps>>

\* the first scan of the background task and the test
\* short_term_count > limit
BackgroundCount ==
    /\ bg.pc = "count"
    /\ LET short_term_count == ShortTermCount(bg.cache)
       IN  bg' = [bg EXCEPT !.short_term_count = short_term_count,
                            !.pc = IF short_term_count > short_term_limit
                                   THEN "rank" ELSE "sleep"]
    /\ UNCHANGED <<engine_vars, index_call, stats, scored, short_term_limit, memory_cache, index, now, next_id, adding, last_add,
                   retr, retrieves, sweeps>>

BackgroundRemove ==
    /\ bg.pc = "rank"
    /\ \E left \in CleanupEvict(bg.cache, bg.short_term_count, short_term_limit) :
          bg' = [bg EXCEPT !.cache = left, !.pc = "sleep"]
    /\ UNCHANGED <<engine_vars, index_call, stats, scored, short_term_limit, memory_cache, index, now, next_id, adding, last_add,
                   retr, retrieves, sweeps>>

\* an abort that also ends the cleanup tasks the adds spawned and the adds
\* that await the index
AbortEveryTask ==
    /\ bg.state = "running"
    /\ bg' = [bg EXCEPT !.state = "aborted"]
    /\ sweeps' = {}
    /\ adding' = {}
    /\ UNCHANGED <<engine_vars, index_call, stats, scored, short_term_limit, memory_cache, index, now, next_id, last_add,
                   retr, retrieves>>

\* JoinHandle::abort: the task ends at its next await, the tick
AbortBackgroundCleanup ==
    /\ bg.state = "running"
    /\ bg' = [bg EXCEPT !.state = "aborted"]
    /\ UNCHANGED <<engine_vars, index_call, stats, scored, short_term_limit, memory_cache, index, now, next_id, adding, last_add,
                   retr, retrieves, sweeps>>

----------------------------------------------------------------------------
(* retrieve_memories *)

Limit(limit) == IF limit = <<>> THEN DefaultLimit ELSE limit[1]

\* a lookup that makes an entry up for an id the cache does not hold
CacheGetOrDefault(cache, id) ==
    IF id \in DOMAIN cache THEN <<cache[id]>> ELSE <<NewMemoryEntry(id, "LongTerm", 0, 0)>>

\* self.memory_cache.get_mut(&id): Some(entry) or None
CacheGet(cache, id) == IF id \in DOMAIN cache THEN <<cache[id]>> ELSE <<>>

\* a filter that lets every entry pass
PassesAnyFilter(memory_types, entry) == TRUE

\* the test of lines 107-111: the entry's type passes the filter
PassesFilter(memory_types, entry) ==
    memory_types = <<>> \/ entry.memory_type \in memory_types[1]

\* the test of line 117 with > for >=
LimitExceeded(memories, limit) == Len(memories) > limit

\* the test of line 117
LimitReached(memories, limit) == Len(memories) >= limit

\* The loop of lines 104-121 from position pos on, which does not await:
\* what it can leave as the cache, the entries collected and the clock.
\* Each mark_accessed reads the clock again.
RECURSIVE HydrateLoop(_, _, _, _, _)
HydrateLoop(call, pos, cache, memories, t) ==
    IF pos > Len(call.similar_ids)
    THEN {[cache |-> cache, memories |-> memories, now |-> t]}
    ELSE LET got == CacheGet(cache, call.similar_ids[pos])
         IN  IF got = <<>> \/ ~PassesFilter(call.memory_types, got[1])
             THEN HydrateLoop(call, pos + 1, cache, memories, t)
             ELSE UNION {
                    LET entry == MarkAccessed(got[1], u)
                        marked == CacheInsert(cache, entry)
                        collected == Append(memories, entry)
                    IN  IF LimitReached(collected, call.limit)
                        THEN {[cache |-> marked, memories |-> collected, now |-> u]}
                        ELSE HydrateLoop(call, pos + 1, marked, collected, u)
                    : u \in Readings(t)}

\* lines 88-100: the query's embedding and the search; on Ok the call goes on
\* to the loop over similar_ids, on Err it returns VectorStoreError
RetrieveMemories(queries, type_filters, limits) ==
    /\ retr.pc \in {"idle", "done", "error"}
    /\ retrieves < MaxRetrieves
    /\ retrieves' = retrieves + 1
    /\ \E query \in queries, memory_types \in type_filters, limit \in limits,
          found \in BOOLEAN :
          LET query_embedding == GenerateEmbedding(query)
          IN  IF found
              THEN \E similar_ids \in SearchSimilar(index, query_embedding,
                                                    Limit(limit) * 2, similarity_threshold) :
                      retr' = [pc |-> "hydrate", error |-> "", limit |-> Limit(limit),
                               memory_types |-> memory_types,
                               query_embedding |-> <<query_embedding>>,
                               similar_ids |-> similar_ids, memories |-> <<>>]
              ELSE retr' = [NoRetrieve EXCEPT !.pc = "error", !.error = "VectorStoreError"]
    /\ UNCHANGED <<engine_vars, index_call, stats, scored, short_term_limit, memory_cache, index, now, next_id, adding, last_add,
                   sweeps, bg>>

\* retrieve_memories answering a failed embedding with an empty result
RetrieveMemoriesNoEmbeddingEmpty ==
    /\ retr.pc \in {"idle", "done", "error"}
    /\ retrieves < MaxRetrieves
    /\ retrieves' = retrieves + 1
    /\ retr' = [NoRetrieve EXCEPT !.pc = "done"]
    /\ UNCHANGED <<engine_vars, index_call, stats, scored, short_term_limit, memory_cache, index, now, next_id, adding, last_add,
                   sweeps, bg>>

\* retrieve_memories when generate_embedding(query) returns Err: the ? returns it
RetrieveMemoriesNoEmbedding ==
    /\ retr.pc \in {"idle", "done", "error"}
    /\ retrieves < MaxRetrieves
    /\ retrieves' = retrieves + 1
    /\ retr' = [NoRetrieve EXCEPT !.pc = "error", !.error = "EmbeddingError"]
    /\ UNCHANGED <<engine_vars, index_call, stats, scored, short_term_limit, memory_cache, index, now, next_id, adding, last_add,
                   sweeps, bg>>

\* a retrieval that sorts every qualifying candidate by importance and then
\* keeps the first limit
RetrieveHydrateSortFirst ==
    /\ retr.pc = "hydrate"
    /\ \E out \in HydrateLoop([retr EXCEPT !.limit = Len(retr.similar_ids) + 1], 1,
                               memory_cache, <<>>, now) :
          /\ memory_cache' = out.cache
          /\ now' = out.now
          /\ retr' = [retr EXCEPT !.pc = "done",
                                  !.memories = Take(RetrieveSort(out.memories), retr.limit)]
    /\ UNCHANGED <<engine_vars, index_call, stats, scored, short_term_limit, index, next_id, adding, last_add, retrieves,
                   sweeps, bg>>

\* lines 102-134, after search_similar(..).await returned Ok: the loop, the
\* sort and the return
RetrieveHydrate ==
    /\ retr.pc = "hydrate"
    /\ \E out \in HydrateLoop(retr, 1, memory_cache, <<>>, now) :
          /\ memory_cache' = out.cache
          /\ now' = out.now
          /\ retr' = [retr EXCEPT !.pc = "done", !.memories = RetrieveSort(out.memories)]
    /\ UNCHANGED <<engine_vars, index_call, stats, scored, short_term_limit, index, next_id, adding, last_add, retrieves,
                   sweeps, bg>>

----------------------------------------------------------------------------
(* Specifications.  A text is the sequence of its code points: <<97>> is   *)
(* "a", <<97, 98>> is "ab", <<99, 97, 116>> is "cat" and <<29483, 21674>>  *)
(* is a text of two CJK characters.                                        *)

Cleanup == CleanupCount \/ CleanupRemove

Background ==
    \/ StartBackgroundCleanup
    \/ BackgroundWake
    \/ BackgroundCount
    \/ BackgroundRemove
    \/ AbortBackgroundCleanup

\* add_memory of short-term and long-term entries of three importances
AddPlain ==
    AddMemory({"ShortTerm", "LongTerm"}, {<<97>>}, {<<>>}, {3000, 6000, 9000}, {<<>>})

\* retrieve_memories(query, None, None)
RetrievePlain == RetrieveMemories({<<97>>}, {<<>>}, {<<>>})

\* The store with the cleanup tasks its adds spawn and with retrieval
Next ==
    \/ AddPlain
    \/ AddMemoryInsert
    \/ Cleanup
    \/ RetrievePlain
    \/ RetrieveHydrate

Spec == Init /\ [][Next]_vars

\* The store with the cleanup tasks its adds spawn
NextAdd ==
    \/ AddPlain
    \/ AddMemoryInsert
    \/ Cleanup

SpecAdd == Init /\ [][NextAdd]_vars

\* The store with the background cleanup task
NextBackground ==
    \/ AddPlain
    \/ AddMemoryInsert
    \/ Background

\* the interval of the background task keeps ticking and the task's code
\* between two awaits runs to its end
SpecBackground ==
    /\ Init
    /\ [][NextBackground]_vars
    /\ WF_vars(BackgroundWake)
    /\ WF_vars(BackgroundCount)
    /\ WF_vars(BackgroundRemove)

\* Retrieval over entries whose importance is low, high or, with a keyword
\* of three characters, NaN
NextOrder ==
    \/ AddMemory({"LongTerm"}, {<<97>>}, {<<>>, << <<99, 97, 116>> >>}, {3000, 9000}, {<<>>})
    \/ AddMemoryInsert
    \/ RetrievePlain
    \/ RetrieveHydrate

SpecOrder == InitDefault /\ [][NextOrder]_vars

\* Retrieval with and without a limit, over entries whose text is or is not
\* similar to the query
NextRetrieve ==
    \/ AddMemory({"LongTerm"}, {<<97>>, <<29483, 21674>>}, {<<>>}, {6000}, {<<>>})
    \/ AddMemoryInsert
    \/ RetrieveMemories({<<97>>}, {<<>>}, {<<>>, <<1>>})
    \/ RetrieveHydrate

SpecRetrieve == InitDefault /\ [][NextRetrieve]_vars

\* SpecRetrieve with an embedding provider that can fail: generate_embedding
\* returns a Result, and the callers handle its Err
NextFault ==
    \/ NextRetrieve
    \/ AddMemoryNoEmbedding({"LongTerm"}, {<<>>}, {6000}, {<<>>})
    \/ RetrieveMemoriesNoEmbedding

SpecFault == InitDefault /\ [][NextFault]_vars

----------------------------------------------------------------------------
(* Eviction of short-term entries *)

Range(s) == {s[i] : i \in 1..Len(s)}

Ids(entries) == {entries[i].id : i \in 1..Len(entries)}

\* the importance add_memory gives a short-term entry added without context
\* and without keywords
ShortTermScore(importance) ==
    CalculateContextualImportance("ShortTerm", importance, <<>>, <<>>)

\* C1: when the store's cache holds more short-term entries than
\* short_term_limit and a sweep runs on it with nothing else happening (the
\* sweep's view of the cache is the store's cache), the sweep leaves exactly
\* short_term_limit short-term entries in the store's cache, no entry of
\* another type is removed, and no removed entry ranks above a survivor.
C1_SweepLeavesTopRanked ==
    [][\A task \in sweeps :
          (/\ task.pc = "rank"
           /\ task \notin sweeps'
           /\ task.cache = memory_cache
           /\ ShortTermCount(memory_cache) > short_term_limit)
          => /\ ShortTermCount(memory_cache') = short_term_limit
             /\ DOMAIN memory_cache \ DOMAIN memory_cache' \subseteq ShortTermIds(memory_cache)
             /\ \A kept \in ShortTermIds(memory_cache'),
                   gone \in DOMAIN memory_cache \ DOMAIN memory_cache' :
                   ~CleanupIsLess(memory_cache[kept], memory_cache[gone])]_vars

\* C2: once every add has returned and every sweep the adds scheduled has
\* run, the store's cache holds at most short_term_limit short-term entries.
C2_CapacityRestored ==
    (adding = {} /\ sweeps = {}) => ShortTermCount(memory_cache) <= short_term_limit

\* C3: while the background task is alive, a short-term population of the
\* store's cache above short_term_limit is eventually reduced to
\* short_term_limit.
C3_BackgroundReduces ==
    (bg.state = "running" /\ ShortTermCount(memory_cache) > short_term_limit)
        ~> (bg.state # "running" \/ ShortTermCount(memory_cache) <= short_term_limit)

\* the three adds of the scenario have returned, in this order, and every
\* sweep has run; the entry of importance 0.3 is the second
ThreeAddsSwept ==
    /\ short_term_limit = 2
    /\ next_id = 3
    /\ adding = {}
    /\ sweeps = {}
    /\ {1, 3} \subseteq DOMAIN memory_cache
    /\ \A id \in DOMAIN memory_cache : memory_cache[id].memory_type = "ShortTerm"
    /\ memory_cache[1].importance = ShortTermScore(9000)
    /\ memory_cache[3].importance = ShortTermScore(6000)
    /\ 2 \in DOMAIN memory_cache => memory_cache[2].importance = ShortTermScore(3000)

\* C4: with short_term_limit 2, after short-term entries of importance 0.9,
\* 0.3 and 0.6 are added and the sweeps have run, the entry of importance 0.3
\* is gone from the store's cache, and a retrieval that matches all of them
\* returns the entry of 0.9 and then the entry of 0.6.
C4_LowestEvicted ==
    /\ [](ThreeAddsSwept => 2 \notin DOMAIN memory_cache)
    /\ [][(ThreeAddsSwept /\ retr.pc = "hydrate" /\ Len(retr.similar_ids) = 3
             /\ retr'.pc = "done")
           => [i \in 1..Len(retr'.memories) |-> retr'.memories[i].id] = <<1, 3>>]_vars

----------------------------------------------------------------------------
(* The order of a retrieval's result *)

\* C5: a retrieval's result is in descending order of importance, and among
\* entries of equal importance in descending order of last_accessed; only
\* pairs of entries whose importances can be compared are constrained.
C5_ResultOrdered ==
    retr.pc = "done" =>
        \A i, j \in 1..Len(retr.memories) :
            (i < j /\ ~IsNaN(retr.memories[i].importance)
                   /\ ~IsNaN(retr.memories[j].importance))
            => \/ retr.memories[i].importance > retr.memories[j].importance
               \/ /\ retr.memories[i].importance = retr.memories[j].importance
                  /\ retr.memories[i].last_accessed >= retr.memories[j].last_accessed


----------------------------------------------------------------------------
(* The bounds of a retrieval *)

\* the ids of the index whose vector search_similar accepts for the query
Matching(call) ==
    {id \in DOMAIN index :
        AtLeast(CosineSimilarity(call.query_embedding[1], index[id]), similarity_threshold)}

\* C6: whatever the index and the cache hold, and for the default limit as
\* for a given one, the candidates a retrieval gets from the index are at most
\* 2 * limit, each of similarity at least similarity_threshold to the query,
\* and the retrieval returns at most limit entries.
C6_RetrieveBound ==
    retr.pc \in {"hydrate", "done"} =>
        /\ Len(retr.similar_ids) <= 2 * retr.limit
        /\ Range(retr.similar_ids) \subseteq Matching(retr)
        /\ Len(retr.memories) <= retr.limit

\* a retrieval of limit 1 has returned one entry of three that match, two of
\* them having been candidates
C6_Witness ==
    /\ retr.pc = "done"
    /\ retr.limit = 1
    /\ Cardinality(Matching(retr) \cap DOMAIN memory_cache) = 3
    /\ Len(retr.similar_ids) = 2
    /\ Len(retr.memories) = 1

\* C7: a retrieval whose candidates include ids the cache does not hold
\* returns, without an error, the entries of the candidates the cache holds
\* (the first limit of them) and no entry for the others.
C7_HydrateSkip ==
    [][(retr.pc = "hydrate" /\ retr'.pc # "hydrate")
       => LET present == SelectSeq(retr.similar_ids, LAMBDA id : id \in DOMAIN memory_cache)
          IN  /\ retr'.pc = "done"
              /\ Ids(retr'.memories) = Range(Take(present, retr.limit))
              /\ Len(retr'.memories) = Cardinality(Ids(retr'.memories))]_vars

\* a retrieval has returned fewer entries than its limit and than its
\* candidates: a candidate was not in the cache
C7_Witness ==
    /\ retr.pc = "done"
    /\ retr.memories # <<>>
    /\ Len(retr.memories) < retr.limit
    /\ \E id \in Range(retr.similar_ids) : id \notin Ids(retr.memories)

----------------------------------------------------------------------------
(* Failures of the index and of the embedding provider *)

\* C8: an add_memory call that ends at store_vector, the index having
\* failed, returns VectorStoreError, leaves the cache and the index as they
\* were and spawns no cleanup task; no entry is in the cache without its
\* vector in the index.
C8_AddIndexFailure ==
    /\ [](DOMAIN memory_cache \subseteq DOMAIN index)
    /\ [][(next_id' # next_id /\ adding' = adding)
           => /\ last_add' = [status |-> "VectorStoreError", id |-> 0]
              /\ memory_cache' = memory_cache
              /\ sweeps' = sweeps
              /\ index' = index]_vars

\* the last add_memory call returned VectorStoreError, after calls that
\* filled the cache, and its entry is not in the cache
C8_Witness ==
    /\ last_add.status = "VectorStoreError"
    /\ adding = {}
    /\ memory_cache # <<>>
    /\ next_id \notin DOMAIN memory_cache

\* the entries of the cache that have no embedding
NoEmbedding == {id \in DOMAIN memory_cache : memory_cache[id].embedding = <<>>}

\* C9: an add_memory call whose embedding failed returns the id of its entry,
\* the entry is in the cache without an embedding, the index is left as it
\* was, and the entry is never a candidate nor a result of a retrieval.
C9_AddEmbeddingFailure ==
    /\ [](\A id \in NoEmbedding :
             /\ id \notin DOMAIN index
             /\ id \notin Range(retr.similar_ids)
             /\ id \notin Ids(retr.memories))
    /\ [][(next_id' # next_id /\ next_id' \in DOMAIN memory_cache')
           => /\ last_add' = [status |-> "Ok", id |-> next_id']
              /\ memory_cache'[next_id'].embedding = <<>>
              /\ index' = index]_vars

\* a retrieval made after the add of an entry without embedding has returned
\* other entries
C9_Witness ==
    /\ retr.pc = "done"
    /\ \E id \in NoEmbedding, i \in 1..Len(retr.memories) :
          /\ retr.memories[i].last_accessed > memory_cache[id].last_accessed
          /\ retr.memories[i].id > id

\* C10: a retrieve_memories call that does not get its candidates returns an
\* error, VectorStoreError when it is the search that failed, returns no
\* entry and leaves every entry of the cache as it was.
C10_RetrieveFailure ==
    [][(retrieves' # retrieves /\ retr'.pc # "hydrate")
       => /\ retr'.pc = "error"
          /\ retr'.error \in {"EmbeddingError", "VectorStoreError"}
          /\ retr'.memories = <<>>
          /\ memory_cache' = memory_cache]_vars

\* a retrieval over a cache that holds entries has failed on the embedding
\* of its query
C10_Witness ==
    /\ retr.pc = "error"
    /\ retr.error = "EmbeddingError"
    /\ memory_cache # <<>>

----------------------------------------------------------------------------
(* The calls of the emotional engine.  The caller keeps the state a call  *)
(* returns and passes it to the next call, as the examples do.            *)

\* the variables of the memory store
memory_vars == <<short_term_limit, memory_cache, index, now, next_id, adding, last_add,
                 scored, stats, retr, retrieves, sweeps, bg, index_call>>

\* engine.process_trigger(&state, trigger, intensity), called when the given
\* time has passed since the call before
CallProcessTrigger(triggers, intensities, durations) ==
    /\ engine_calls < MaxEngineCalls
    /\ engine_calls' = engine_calls + 1
    /\ \E trigger \in triggers, intensity \in intensities, duration \in durations :
          /\ clock' = clock + duration
          /\ last_call' = [op |-> "process_trigger", trigger |-> trigger,
                           intensity |-> intensity, duration |-> duration]
          /\ engine_state' = ProcessTrigger(DefaultRules, engine_state, trigger, intensity, clock')
    /\ UNCHANGED <<memory_vars, analysis, current_emotion, emotion_calls>>

\* engine.apply_time_decay(&state), called when the given time has passed
\* since the call before
CallApplyTimeDecay(durations) ==
    /\ engine_calls < MaxEngineCalls
    /\ engine_calls' = engine_calls + 1
    /\ \E duration \in durations :
          /\ clock' = clock + duration
          /\ last_call' = [op |-> "apply_time_decay", trigger |-> "", intensity |-> 0,
                           duration |-> duration]
          /\ engine_state' = ApplyTimeDecay(engine_state, clock')
    /\ UNCHANGED <<memory_vars, analysis, current_emotion, emotion_calls>>

----------------------------------------------------------------------------
(* update_emotional_state and get_emotional_state (core.rs).  A call is    *)
(* [kind, pc, new_state, result]; the assignment *current = new_state      *)
(* writes the scalars and then the mood and the timestamp.                 *)

NewCall(kind, new_state) ==
    [kind |-> kind, pc |-> "lock", new_state |-> new_state, result |-> <<>>]

\* update_emotional_state(new_state) is called
UpdateEmotionalState(states) ==
    /\ Len(emotion_calls) < MaxEmotionCalls
    /\ \E new_state \in states :
          emotion_calls' = Append(emotion_calls, NewCall("update", <<new_state>>))
    /\ UNCHANGED <<memory_vars, analysis, engine_state, clock, engine_calls, last_call, current_emotion>>

\* self.current_emotion.write().await returns the write guard
UpdateLock ==
    /\ \E call \in DOMAIN emotion_calls :
          /\ emotion_calls[call].kind = "update"
          /\ emotion_calls[call].pc = "lock"
          /\ current_emotion.writer = 0
          /\ current_emotion.readers = {}
          /\ current_emotion' = [current_emotion EXCEPT !.writer = call, !.last = call]
          /\ emotion_calls' = [emotion_calls EXCEPT ![call].pc = "write"]
    /\ UNCHANGED <<memory_vars, analysis, engine_state, clock, engine_calls, last_call>>

\* the first part of *current = new_state
UpdateWriteScalars ==
    /\ \E call \in DOMAIN emotion_calls :
          /\ emotion_calls[call].pc = "write"
          /\ LET new_state == emotion_calls[call].new_state[1]
             IN  current_emotion' =
                     [current_emotion EXCEPT
                         !.data = [@ EXCEPT !.happiness = new_state.happiness,
                                            !.affection = new_state.affection,
                                            !.trust = new_state.trust,
                                            !.dependency = new_state.dependency]]
          /\ emotion_calls' = [emotion_calls EXCEPT ![call].pc = "write mood"]
    /\ UNCHANGED <<memory_vars, analysis, engine_state, clock, engine_calls, last_call>>

\* the rest of *current = new_state, and the drop of the write guard
UpdateWriteMood ==
    /\ \E call \in DOMAIN emotion_calls :
          /\ emotion_calls[call].pc = "write mood"
          /\ current_emotion' =
                 [current_emotion EXCEPT !.data = emotion_calls[call].new_state[1],
                                         !.writer = 0]
          /\ emotion_calls' = [emotion_calls EXCEPT ![call].pc = "done"]
    /\ UNCHANGED <<memory_vars, analysis, engine_state, clock, engine_calls, last_call>>

\* get_emotional_state() is called
GetEmotionalState ==
    /\ Len(emotion_calls) < MaxEmotionCalls
    /\ emotion_calls' = Append(emotion_calls, NewCall("get", <<>>))
    /\ UNCHANGED <<memory_vars, analysis, engine_state, clock, engine_calls, last_call, current_emotion>>

\* a read that does not wait for the writer
GetLockUnguarded ==
    /\ \E call \in DOMAIN emotion_calls :
          /\ emotion_calls[call].kind = "get"
          /\ emotion_calls[call].pc = "lock"
          /\ current_emotion' = [current_emotion EXCEPT !.readers = @ \cup {call}]
          /\ emotion_calls' = [emotion_calls EXCEPT ![call].pc = "read"]
    /\ UNCHANGED <<memory_vars, analysis, engine_state, clock, engine_calls, last_call>>

\* self.current_emotion.read().await returns a read guard
GetLock ==
    /\ \E call \in DOMAIN emotion_calls :
          /\ emotion_calls[call].kind = "get"
          /\ emotion_calls[call].pc = "lock"
          /\ current_emotion.writer = 0
          /\ current_emotion' = [current_emotion EXCEPT !.readers = @ \cup {call}]
          /\ emotion_calls' = [emotion_calls EXCEPT ![call].pc = "read"]
    /\ UNCHANGED <<memory_vars, analysis, engine_state, clock, engine_calls, last_call>>

\* .clone(), the drop of the read guard and the return
GetClone ==
    /\ \E call \in DOMAIN emotion_calls :
          /\ emotion_calls[call].pc = "read"
          /\ current_emotion' = [current_emotion EXCEPT !.readers = @ \ {call}]
          /\ emotion_calls' = [emotion_calls EXCEPT ![call].pc = "done",
                                                    ![call].result = <<current_emotion.data>>]
    /\ UNCHANGED <<memory_vars, analysis, engine_state, clock, engine_calls, last_call>>

----------------------------------------------------------------------------
(* Specifications of the engine and of the emotional-state slot *)

\* the time between two calls of the engine, in half hours: none, half an
\* hour less than a day, half an hour more than a day, more than ten days
Durations == {0, 47, 49, 500}

\* the intensities a caller passes: NaN, below 0, 0, in (0, 1), 1, and the 1.5
\* of three praise keywords
Intensities == {NaN, -5000, 0, 5000, One, 15000}

\* The engine called with every trigger, with intensities below, in and
\* above [0, 1] and NaN, at once or more than ten days after the call before
NextEngine ==
    \/ CallProcessTrigger(EmotionalTriggers, Intensities, {0, 500})
    \/ CallApplyTimeDecay(Durations)

SpecEngine == InitMemory({DefaultShortTermLimit}) /\ InitEmotion(StartStates) /\ [][NextEngine]_vars

\* two states an update can be given
UpdateStates ==
    {ProcessTrigger(DefaultRules, NewEmotionalState(0), "BeingPraised", One, 1),
     ProcessTrigger(DefaultRules, NewEmotionalState(0), "NegativeInteraction", One, 2)}

\* The slot under concurrent updates and gets
NextSlot ==
    \/ UpdateEmotionalState(UpdateStates)
    \/ UpdateLock
    \/ UpdateWriteScalars
    \/ UpdateWriteMood
    \/ GetEmotionalState
    \/ GetLock
    \/ GetClone

SpecSlot == InitDefault /\ [][NextSlot]_vars

----------------------------------------------------------------------------
(* The range of importance *)

\* entry.update_importance(delta) on an entry retrieve_memories returned
CallUpdateImportance(deltas) ==
    /\ retr.pc = "done"
    /\ \E i \in 1..Len(retr.memories), delta \in deltas :
          retr' = [retr EXCEPT !.memories[i] = UpdateImportance(@, delta)]
    /\ UNCHANGED <<engine_vars, index_call, stats, scored, short_term_limit, memory_cache, index, now, next_id, adding,
                   last_add, retrieves, sweeps, bg>>

\* Adds with an importance below and above [0, 1], with and without an
\* emotional context, without keywords and with the keyword "cat", and
\* updates of the entries a retrieval returned
NextImportance ==
    \/ AddMemory({"Emotional"}, {<<97>>}, {<<>>, << <<99, 97, 116>> >>},
                 {-5000, 15000}, {<<>>, <<DefaultEmotionalState>>})
    \/ AddMemoryInsert
    \/ RetrievePlain
    \/ RetrieveHydrate
    \/ CallUpdateImportance({-5000, 5000})

SpecImportance == InitDefault /\ [][NextImportance]_vars

\* C11: the importance of every entry of the cache and of every entry a
\* retrieval returned is within [0, 1], whatever importance, emotional
\* context and keywords the entry was added with and whatever updates of its
\* importance followed.
C11_ImportanceInRange ==
    /\ \A id \in DOMAIN memory_cache :
          memory_cache[id].importance >= 0 /\ memory_cache[id].importance <= One
    /\ \A i \in 1..Len(retr.memories) :
          retr.memories[i].importance >= 0 /\ retr.memories[i].importance <= One

----------------------------------------------------------------------------
(* The emotional engine *)

Scalars(state) == {state.happiness, state.affection, state.trust, state.dependency}

\* C12: from a state whose four scalars are within [0, 1], after any calls
\* of process_trigger, with any trigger and any intensity, and of
\* apply_time_decay, the four scalars are within [0, 1].
C12_ScalarsInRange ==
    \A scalar \in Scalars(engine_state) : scalar >= 0 /\ scalar <= One

\* the triggers init_default_rules registers no rule for
UnregisteredTriggers ==
    {"BeingIgnored", "BeingCriticized", "SharingSecret", "UserSadness", "UserHappiness"}

\* C13: process_trigger with a trigger that has no rule returns its input:
\* the scalars, the mood and the timestamp are the ones of the state it was
\* given, whatever the intensity and the time of the call.
C13_UnknownTriggerNoOp ==
    [][(engine_calls' # engine_calls /\ last_call'.op = "process_trigger"
        /\ last_call'.trigger \in UnregisteredTriggers)
       => engine_state' = engine_state]_vars

\* process_trigger was called with each of the five triggers, more than ten
\* days after the state was made
C13_Witness ==
    /\ last_call.op = "process_trigger"
    /\ last_call.trigger \in UnregisteredTriggers
    /\ last_call.duration = 500
    /\ engine_state.timestamp = 0

----------------------------------------------------------------------------
(* The emotional-state slot *)

\* the update_emotional_state calls that have returned
UpdatesDone ==
    {call \in DOMAIN emotion_calls :
        emotion_calls[call].kind = "update" /\ emotion_calls[call].pc = "done"}

Updates == {call \in DOMAIN emotion_calls : emotion_calls[call].kind = "update"}

\* C14: under any interleaving of update_emotional_state and
\* get_emotional_state calls, what a get returns is the default state or the
\* whole state one update was given, never fields of two states; and a get
\* that reads when every update has returned returns the state of the update
\* that took the write guard last.
C14_AtomicRegister ==
    /\ [](\A call \in DOMAIN emotion_calls :
            emotion_calls[call].result # <<>>
            => \/ emotion_calls[call].result = <<NewEmotionalState(0)>>
               \/ \E update \in UpdatesDone :
                     emotion_calls[call].result = emotion_calls[update].new_state)
    /\ [][\A call \in DOMAIN emotion_calls :
            (/\ emotion_calls[call].pc = "read"
             /\ emotion_calls'[call].pc = "done"
             /\ Updates # {}
             /\ Updates = UpdatesDone)
            => emotion_calls'[call].result = emotion_calls[current_emotion.last].new_state]_vars

\* a get has returned the state of one update while another update, given
\* another state, is in the middle of its write
C14_Witness ==
    \E get \in DOMAIN emotion_calls, first \in UpdatesDone, second \in Updates :
        /\ emotion_calls[get].result = emotion_calls[first].new_state
        /\ emotion_calls[second].pc = "write mood"
        /\ emotion_calls[second].new_state # emotion_calls[first].new_state

----------------------------------------------------------------------------
(* Storing an entry and retrieving it by its own text *)

\* Entries of one, two and three characters, of two importances, retrieved
\* by the text of two and by the text of three characters, with and without
\* a category filter
NextRoundTrip ==
    \/ AddMemory({"LongTerm"}, {<<97>>, <<97, 98>>, <<99, 97, 116>>}, {<<>>},
                 {3000, 9000}, {<<>>})
    \/ AddMemoryInsert
    \/ RetrieveMemories({<<97, 98>>, <<99, 97, 116>>}, {<<>>, <<{"LongTerm"}>>}, {<<>>})
    \/ RetrieveHydrate

SpecRoundTrip == InitDefault /\ [][NextRoundTrip]_vars

\* the stored entries whose vector in the index is the query's own vector
\* and which the category filter of the call admits
Identical(call) ==
    {id \in DOMAIN memory_cache \cap DOMAIN index :
        /\ index[id] = call.query_embedding[1]
        /\ PassesFilter(call.memory_types, memory_cache[id])}

\* C15: a retrieval whose query has the very embedding of entries that add
\* has stored (and whose category filter admits them) gets them among its
\* candidates and returns one of them as the first element of its result.
C15_RoundTrip ==
    [][/\ (retr.pc # "hydrate" /\ retr'.pc = "hydrate")
            => Identical(retr') \subseteq Range(retr'.similar_ids)
       /\ (retr.pc = "hydrate" /\ retr'.pc = "done"
           /\ Identical(retr) \cap Range(retr.similar_ids) # {})
            => /\ retr'.memories # <<>>
               /\ retr'.memories[1].id \in Identical(retr)]_vars

----------------------------------------------------------------------------
(* What a sweep leaves alone *)

\* Entries of three categories with the cleanup tasks their adds spawn and
\* with the background cleanup task
NextFrame ==
    \/ AddMemory({"ShortTerm", "LongTerm", "Emotional"}, {<<97>>}, {<<>>}, {6000}, {<<>>})
    \/ AddMemoryInsert
    \/ Cleanup
    \/ Background

SpecFrame == Init /\ [][NextFrame]_vars

\* the sweeps that have counted more ShortTerm entries than the limit and
\* are about to remove: spawned tasks and the background task
Ranking == {task \in sweeps : task.pc = "rank"} \cup (IF bg.pc = "rank" THEN {bg} ELSE {})

\* the entries of a cache of the categories LongTerm, Emotional, Preference
\* and Relationship
OtherCategory(cache) ==
    {id \in DOMAIN cache : cache[id].memory_type \in MemoryTypes \ {"ShortTerm"}}

\* C16: whatever cache a sweep is about to reduce, every entry it removes
\* is a ShortTerm entry and every other entry is left as it was; an entry
\* of another category, once in the store's cache, is there in every later
\* state; a step of a sweep leaves the vector index unchanged, so the ids
\* the background sweep has removed from its cache are still in the index.
C16_EvictionFrame ==
    /\ [](\A task \in Ranking :
            \A left \in CleanupEvict(task.cache, task.short_term_count, short_term_limit) :
                \A id \in OtherCategory(task.cache) :
                    id \in DOMAIN left /\ left[id] = task.cache[id])
    /\ [][OtherCategory(memory_cache) \subseteq OtherCategory(memory_cache')]_vars
    /\ [][(sweeps' # sweeps \/ bg' # bg) => index' = index]_vars
    /\ [][(bg.pc = "rank" /\ bg'.pc # "rank")
            => /\ OtherCategory(bg.cache) = OtherCategory(bg'.cache)
               /\ DOMAIN bg.cache \subseteq DOMAIN index']_vars

\* the background sweep has just removed ShortTerm entries from its cache
\* and kept an entry of another category there; the removed id is still in
\* the index
C16_Witness ==
    /\ bg.state = "running"
    /\ bg.pc = "sleep"
    /\ bg.short_term_count > short_term_limit
    /\ Cardinality(DOMAIN bg.cache \ OtherCategory(bg.cache)) = short_term_limit
    /\ OtherCategory(bg.cache) # {}
    /\ \E evicted \in DOMAIN memory_cache \ OtherCategory(memory_cache) :
          evicted \notin DOMAIN bg.cache /\ evicted \in DOMAIN index

----------------------------------------------------------------------------
(* apply_time_decay *)

\* the step is a call of apply_time_decay
DecayStep ==
    engine_calls' # engine_calls /\ last_call'.op = "apply_time_decay"

\* half hours in the decay interval
IntervalHalfHours == 2 * decay_interval_hours

\* C17: a call of apply_time_decay that follows another with no time
\* elapsed between the two returns the state the first returned: the four
\* scalars, the mood and the timestamp.
C17_DecayIdempotent ==
    [][(DecayStep /\ last_call.op = "apply_time_decay" /\ last_call'.duration = 0)
       => engine_state' = engine_state]_vars

\* the second of two decays with no time between them has returned; the
\* first had decayed the default state after 24.5 hours
C17_Witness ==
    /\ engine_calls = 2
    /\ last_call.op = "apply_time_decay"
    /\ last_call.duration = 0
    /\ clock = 49
    /\ engine_state.timestamp = 49
    /\ engine_state.happiness = 4900

\* C18: apply_time_decay called less than 24 whole hours after the state's
\* timestamp (23.5 hours count as 23) returns the state unchanged, mood and
\* timestamp included; called 24 hours after it or later, it returns a state
\* whose timestamp is the time of the call and whose mood is the mood of the
\* returned scalars.
C18_DecayInterval ==
    [][DecayStep
       => IF clock' - engine_state.timestamp < IntervalHalfHours
          THEN engine_state' = engine_state
          ELSE /\ engine_state'.timestamp = clock'
               /\ engine_state'.mood = CalculateMood(engine_state')]_vars

\* a decay called 23.5 hours after the timestamp of a state whose mood a
\* trigger had set has left the state as it was
C18_Witness ==
    /\ engine_calls = 2
    /\ last_call.op = "apply_time_decay"
    /\ last_call.duration = 47
    /\ clock - engine_state.timestamp = 47
    /\ engine_state.mood = "shy"

\* the scalars of a state by name
ScalarNames == {"happiness", "affection", "trust", "dependency"}

\* C19: when apply_time_decay decays, whatever the time elapsed, each scalar
\* that was at or above its floor ends between the floor and the value it
\* had, having moved at most half of the way to the floor (the decay factor
\* is at most 0.5; the 1 is the rounding of the last digit).
C19_DecayTowardFloor ==
    [][(DecayStep /\ clock' - engine_state.timestamp >= IntervalHalfHours)
       => \A name \in ScalarNames :
             LET start == engine_state[name]
                 floor == minimum_values[name]
                 end == engine_state'[name]
             IN  (~IsNaN(start) /\ start >= floor)
                 => /\ ~IsNaN(end)
                    /\ floor <= end
                    /\ end <= start
                    /\ 2 * (start - end) <= (start - floor) + 1]_vars

\* a decay after 250 hours has moved every scalar of the highest state half
\* of the way to its floor
C19_Witness ==
    /\ last_call.op = "apply_time_decay"
    /\ last_call.duration = 500
    /\ engine_state.timestamp = clock
    /\ engine_state.happiness = 6500
    /\ engine_state.affection = 6000
    /\ engine_state.trust = 6000
    /\ engine_state.dependency = 5500

----------------------------------------------------------------------------
(* The mood *)

\* the bands of the mean of happiness, affection and trust: three times the
\* mean against three times 0.8, 0.6, 0.4 and 0.2
Band(state) ==
    LET sum == FAdd(FAdd(state.happiness, state.affection), state.trust)
    IN  CASE ~IsNaN(sum) /\ sum >= 24000 -> "elated"
          [] ~IsNaN(sum) /\ sum >= 18000 /\ sum < 24000 -> "happy"
          [] ~IsNaN(sum) /\ sum >= 12000 /\ sum < 18000 -> "calm"
          [] ~IsNaN(sum) /\ sum >= 6000 /\ sum < 12000 -> "a little sad"
          [] OTHER -> "very sad"

\* the band labels from the lowest to the highest
Rank(mood) ==
    CASE mood = "very sad" -> 0
      [] mood = "a little sad" -> 1
      [] mood = "calm" -> 2
      [] mood = "happy" -> 3
      [] mood = "elated" -> 4

\* the default rules with mood_change: None
RulesWithoutOverride ==
    [trigger \in DOMAIN DefaultRules |-> [DefaultRules[trigger] EXCEPT !.mood_change = <<>>]]

\* the mood and the timestamp a rule must leave in the state returned at t
MoodAfter(rule, state, t) ==
    /\ state.mood = IF rule.mood_change # <<>> THEN rule.mood_change[1] ELSE Band(state)
    /\ state.timestamp = t

\* C20: the state process_trigger returns when a rule fires has the rule's
\* mood override as its mood if the rule has one, else the band of the mean
\* of its new happiness, affection and trust, and the time of the call as
\* its timestamp; the mood calculate_mood gives is that band wherever it is
\* computed, and a state of larger mean never gets a lower band.
C20_MoodAfterTrigger ==
    /\ [][(engine_calls' # engine_calls /\ last_call'.op = "process_trigger"
           /\ last_call'.trigger \in DOMAIN DefaultRules)
          => MoodAfter(DefaultRules[last_call'.trigger], engine_state', clock')]_vars
    /\ [](\A trigger \in DOMAIN RulesWithoutOverride, intensity \in {0, 5000, One} :
            MoodAfter(RulesWithoutOverride[trigger],
                      ProcessTrigger(RulesWithoutOverride, engine_state, trigger, intensity,
                                     clock),
                      clock))
    /\ [](CalculateMood(engine_state) = Band(engine_state))
    /\ [](\A state \in StartStates :
            LET mean3(s) == s.happiness + s.affection + s.trust
            IN  (\A name \in ScalarNames : ~IsNaN(engine_state[name]))
                /\ mean3(state) <= mean3(engine_state)
                => Rank(CalculateMood(state)) <= Rank(CalculateMood(engine_state)))

\* being praised has left the mood "shy" in a state whose scalars are in
\* the highest band, with the time of the call as its timestamp
C20_Witness ==
    /\ last_call.op = "process_trigger"
    /\ last_call.trigger = "BeingPraised"
    /\ engine_state.mood = "shy"
    /\ Band(engine_state) = "elated"
    /\ engine_state.timestamp = clock
    /\ clock > 0

----------------------------------------------------------------------------
(* The scalars after a trigger *)

\* the step is a call of process_trigger for which a rule is registered
RuleStep ==
    /\ engine_calls' # engine_calls
    /\ last_call'.op = "process_trigger"
    /\ last_call'.trigger \in DOMAIN DefaultRules

\* the delta of a rule for a scalar, by the scalar's name
DeltaOf(rule, name) ==
    CASE name = "happiness" -> rule.happiness_delta
      [] name = "affection" -> rule.affection_delta
      [] name = "trust" -> rule.trust_delta
      [] name = "dependency" -> rule.dependency_delta

\* C21: process_trigger on a state with the scalars of the default state,
\* for BeingPraised and for PositiveInteraction at intensity 1.0, returns a
\* state of strictly greater happiness and affection; and whenever a rule
\* fires, each scalar becomes clamp(old + delta * intensity) for the rule's
\* delta and the intensity taken in [0, 1].
C21_PositiveTriggersRaise ==
    /\ [][(/\ RuleStep
           /\ last_call'.trigger \in {"BeingPraised", "PositiveInteraction"}
           /\ last_call'.intensity = One
           /\ \A name \in ScalarNames : engine_state[name] = DefaultEmotionalState[name])
          => /\ engine_state'.happiness > engine_state.happiness
             /\ engine_state'.affection > engine_state.affection]_vars
    /\ [][RuleStep
          => \A name \in ScalarNames :
                LET delta == DeltaOf(DefaultRules[last_call'.trigger], name)
                    scaled == FMul(delta, Clamp(last_call'.intensity))
                IN  engine_state'[name] = Clamp(FAdd(engine_state[name], scaled))]_vars

\* being praised at intensity 1.0 has raised the four scalars of the
\* default state by the rule's deltas
C21_Witness ==
    /\ last_call.op = "process_trigger"
    /\ last_call.trigger = "BeingPraised"
    /\ last_call.intensity = One
    /\ engine_state.happiness = DefaultEmotionalState.happiness + 1500
    /\ engine_state.affection = DefaultEmotionalState.affection + 1000
    /\ engine_state.trust = DefaultEmotionalState.trust + 500
    /\ engine_state.dependency = DefaultEmotionalState.dependency + 300

----------------------------------------------------------------------------
(* The importance add_memory stores *)

\* Entries of two categories, without keywords, with the keyword "ab" and
\* with the keyword "cat", with and without an emotional context, while the
\* cleanup tasks their adds spawn run
NextScoring ==
    \/ AddMemory({"ShortTerm", "Emotional"}, {<<97>>},
                 {<<>>, << <<97, 98>> >>, << <<99, 97, 116>> >>}, {3000},
                 {<<>>, <<DefaultEmotionalState>>})
    \/ AddMemoryInsert
    \/ Cleanup

SpecScoring == Init /\ [][NextScoring]_vars

\* the mean of the four scalars of an emotional context
MeanAffect(emotion) ==
    RoundDiv(emotion.happiness + emotion.affection + emotion.trust + emotion.dependency, 4)

\* the score of the three steps: the clamped importance of the caller, 0.3
\* times the mean of the context's scalars if there is a context, the bias
\* of the category, each step clamped
ThreeStepScore(arguments) ==
    LET start == Clamp(arguments.importance)
        blended ==
            IF arguments.emotional_context # <<>>
            THEN Clamp(start + RoundDiv(3 * MeanAffect(arguments.emotional_context[1]), 10))
            ELSE start
    IN  CASE arguments.memory_type \in {"Emotional", "Relationship"} -> Clamp(blended + 2000)
          [] arguments.memory_type = "ShortTerm" -> Clamp(blended - 1000)
          [] OTHER -> blended

\* C22: the importance of the entry add_memory hands to the index and to
\* the cache is the score of the three steps (caller's importance, emotional
\* context, category bias) on the arguments of the call, and nothing else
\* of the call changes it.
C22_ImportanceScoring ==
    \A entry \in adding : entry.importance = ThreeStepScore(scored[entry.id])

\* f32's ==, false when either side is NaN
FEq(a, b) == ~IsNaN(a) /\ ~IsNaN(b) /\ a = b

\* C23: two entries that add_memory made from the same category, content,
\* keywords, importance and emotional context have equal importance in the
\* cache, whatever else the store holds and whatever runs at the same time.
C23_ScoringDeterministic ==
    \A first, second \in DOMAIN memory_cache :
        (first # second /\ scored[first] = scored[second])
        => FEq(memory_cache[first].importance, memory_cache[second].importance)

----------------------------------------------------------------------------
(* The category filter and the access bookkeeping of retrieve_memories *)

\* Entries of two categories with similar texts, retrieved without a
\* filter and with a filter of one category
NextFilter ==
    \/ AddMemory({"LongTerm", "Emotional"}, {<<97>>}, {<<>>}, {6000}, {<<>>})
    \/ AddMemoryInsert
    \/ RetrieveMemories({<<97>>}, {<<>>, <<{"LongTerm"}>>}, {<<>>})
    \/ RetrieveHydrate

SpecFilter == InitDefault /\ [][NextFilter]_vars

\* the step is the loop of a retrieval and its return
HydrateStep == retr.pc = "hydrate" /\ retr'.pc = "done"

\* the candidates of a call that the cache holds and whose category is one
\* the call asked for, in the order of the candidates
Admitted(call, cache) ==
    SelectSeq(call.similar_ids,
              LAMBDA id : /\ id \in DOMAIN cache
                          /\ \/ call.memory_types = <<>>
                             \/ cache[id].memory_type \in call.memory_types[1])

\* C24: a retrieval given a category filter returns only entries of the
\* categories of the filter; every retrieval returns the first limit of its
\* cached candidates of those categories, and of all categories when it is
\* given no filter.
C24_CategoryFilter ==
    [][HydrateStep
       => /\ retr.memory_types # <<>>
             => \A i \in 1..Len(retr'.memories) :
                   retr'.memories[i].memory_type \in retr.memory_types[1]
          /\ Ids(retr'.memories) = Range(Take(Admitted(retr, memory_cache), retr.limit))]_vars

\* a retrieval filtered to LongTerm has returned an entry and left out a
\* cached candidate of category Emotional
C24_Witness ==
    /\ retr.pc = "done"
    /\ retr.memory_types = <<{"LongTerm"}>>
    /\ retr.memories # <<>>
    /\ \E id \in Range(retr.similar_ids) \cap DOMAIN memory_cache :
          memory_cache[id].memory_type = "Emotional"

----------------------------------------------------------------------------
(* get_memory_stats.  The cache is a concurrent map: the loop over its     *)
(* entries and the call of len() that follows are two readings of it, and  *)
(* an insert of another thread can come between them.                      *)

\* the loop of lines 151-154: the number of entries of each category that
\* has one
CountByType(cache) ==
    LET present == {cache[id].memory_type : id \in DOMAIN cache}
    IN  [type \in present |-> Cardinality({id \in DOMAIN cache : cache[id].memory_type = type})]

\* get_memory_stats up to the end of the loop
StatsScan ==
    /\ stats.pc \in {"idle", "done"}
    /\ stats' = [pc |-> "len", counts |-> CountByType(memory_cache), total |-> 0]
    /\ UNCHANGED <<engine_vars, index_call, scored, short_term_limit, memory_cache, index, now, next_id,
                   adding, last_add, retr, retrieves, sweeps, bg>>

\* line 156: stats.insert("total", self.memory_cache.len()), and the return
StatsTotal ==
    /\ stats.pc = "len"
    /\ stats' = [stats EXCEPT !.pc = "done", !.total = Cardinality(DOMAIN memory_cache)]
    /\ UNCHANGED <<engine_vars, index_call, scored, short_term_limit, memory_cache, index, now, next_id,
                   adding, last_add, retr, retrieves, sweeps, bg>>

\* get_memory_stats while entries are added and cleanup tasks run
NextStats ==
    \/ AddMemory({"ShortTerm", "LongTerm"}, {<<97>>}, {<<>>}, {6000}, {<<>>})
    \/ AddMemoryInsert
    \/ Cleanup
    \/ StatsScan
    \/ StatsTotal

SpecStats == Init /\ [][NextStats]_vars

\* the sum of the counts of a result
RECURSIVE SumOver(_, _)
SumOver(counts, types) ==
    IF types = {} THEN 0
    ELSE LET type == CHOOSE x \in types : TRUE
         IN  counts[type] + SumOver(counts, types \ {type})

\* C25: the total of every result of get_memory_stats is the sum of its
\* counts per category, adds and sweeps running at the same time or not.
C25_StatsConsistent ==
    stats.pc = "done" => stats.total = SumOver(stats.counts, DOMAIN stats.counts)

----------------------------------------------------------------------------
(* analyze_interaction *)

\* engine.analyze_interaction(user_input, &memories)
CallAnalyzeInteraction(inputs, memory_lists) ==
    /\ \E user_input \in inputs, memories \in memory_lists :
          analysis' = [user_input |-> user_input, memories |-> memories,
                       triggers |-> AnalyzeInteraction(user_input, memories)]
    /\ UNCHANGED <<memory_vars, engine_state, clock, engine_calls, last_call,
                   current_emotion, emotion_calls>>

\* n memories of one category
Memories(type, n) == [i \in 1..n |-> type]

\* The texts: nothing; "Hi"; the text of the repository's test (one praise
\* and one positive keyword); single keywords, among them one that is in
\* two categories and two that contain a keyword of another category; a
\* keyword twice; every keyword of a category; keywords of all three
\* categories; a keyword after capital letters.
Inputs ==
    {<<>>,
     <<72, 105>>,
     <<20320, 30495, 32874, 26126, 65281, 25105, 24456, 21916, 27426, 20320>>,
     <<20320, 22909>>,
     <<26834>>,
     <<19981, 22909>>,
     <<21487, 29233>>,
     <<35752, 21388>>,
     <<21916, 27426, 21916, 27426>>,
     <<28902, 29983, 27668, 38590, 36807>>,
     <<32874, 26126, 28418, 20142, 23436, 32654>>,
     <<21916, 27426, 29233, 24320, 24515, 39640, 20852, 26834, 22909, 35874, 35874,
       24863, 35874>>,
     <<22909, 31967, 31957, 21385, 23475>>,
     <<79, 75, 35874, 35874>>}

\* The memories: none; 9, 10, 11 and 12 short-term ones; 10 short-term ones
\* among 15; 11 that are not short-term; 11 short-term ones after 6 others.
MemoryLists ==
    {<<>>,
     Memories("ShortTerm", 9),
     Memories("ShortTerm", 10),
     Memories("ShortTerm", 11),
     Memories("ShortTerm", 12),
     Memories("ShortTerm", 10) \o Memories("LongTerm", 5),
     Memories("LongTerm", 11),
     Memories("Emotional", 6) \o Memories("ShortTerm", 11)}

NextAnalyze == CallAnalyzeInteraction(Inputs, MemoryLists)

SpecAnalyze == InitDefault /\ [][NextAnalyze]_vars

\* the triggers of a result, in their order
TriggerNames(triggers) == [i \in 1..Len(triggers) |-> triggers[i].trigger]

\* the intensity a result gives a trigger, 0 when it does not emit it
IntensityFor(triggers, trigger) ==
    LET at == {i \in 1..Len(triggers) : triggers[i].trigger = trigger}
    IN  IF at = {} THEN 0 ELSE triggers[CHOOSE i \in at : TRUE].intensity

\* the number of keywords of a category that occur in a text
Hits(text, keywords) ==
    Cardinality({keyword \in Range(keywords) : Contains(ToLowercase(text), keyword)})

\* C26: the result of analyze_interaction is, in this order, the positive,
\* the negative and the praise trigger, each present exactly when a keyword
\* of its category occurs in the text and with 0.3, 0.4 and 0.5 times the
\* number of its keywords that occur, followed by LongConversation at 0.3
\* exactly when more than 10 of the memories are ShortTerm; no trigger is
\* emitted twice.
C26_InteractionAnalysis ==
    LET names == TriggerNames(analysis.triggers)
        order == <<"PositiveInteraction", "NegativeInteraction", "BeingPraised",
                   "LongConversation">>
        short_term ==
            Cardinality({i \in 1..Len(analysis.memories) : analysis.memories[i] = "ShortTerm"})
    IN  /\ names = SelectSeq(order, LAMBDA trigger : trigger \in Range(names))
        /\ IntensityFor(analysis.triggers, "PositiveInteraction")
              = 3000 * Hits(analysis.user_input, positive_keywords)
        /\ IntensityFor(analysis.triggers, "NegativeInteraction")
              = 4000 * Hits(analysis.user_input, negative_keywords)
        /\ IntensityFor(analysis.triggers, "BeingPraised")
              = 5000 * Hits(analysis.user_input, praise_keywords)
        /\ IntensityFor(analysis.triggers, "LongConversation")
              = IF short_term > 10 THEN 3000 ELSE 0

\* the text of the repository's test with 11 short-term memories among 17
\* has given the positive, the praise and the long-conversation trigger
C26_Witness ==
    /\ analysis.user_input
          = <<20320, 30495, 32874, 26126, 65281, 25105, 24456, 21916, 27426, 20320>>
    /\ Len(analysis.memories) = 17
    /\ analysis.triggers = <<[trigger |-> "PositiveInteraction", intensity |-> 3000],
                             [trigger |-> "BeingPraised", intensity |-> 5000],
                             [trigger |-> "LongConversation", intensity |-> 3000]>>

----------------------------------------------------------------------------
(* The search of the in-process index *)

\* Entries whose vectors have similarity 1.0, 0.9987 and less than 0.8 to
\* the queries, searched for 2 ids (limit 1)
NextSearch ==
    \/ AddMemory({"LongTerm"}, {<<97>>, <<97, 98>>, <<29483, 21674>>}, {<<>>}, {6000}, {<<>>})
    \/ AddMemoryInsert
    \/ RetrieveMemories({<<97>>, <<97, 98>>}, {<<>>}, {<<1>>})
    \/ RetrieveHydrate

SpecSearch == InitDefault /\ [][NextSearch]_vars

\* the step is the search of a retrieval, returning Ok
SearchStep == retr.pc # "hydrate" /\ retr'.pc = "hydrate"

\* C27: a search of the index for at most n ids returns at most n ids, each
\* of a stored vector whose cosine similarity to the query is a number at
\* least the threshold, in non-increasing order of similarity, and every
\* stored vector it leaves out is below the threshold (or has no
\* similarity) or is not more similar than any returned one.
C27_SearchContract ==
    [][SearchStep
       => LET ids == retr'.similar_ids
              similarity(id) == CosineSimilarity(retr'.query_embedding[1], index[id])
          IN  /\ Len(ids) <= 2 * retr'.limit
              /\ Cardinality(Range(ids)) = Len(ids)
              /\ \A i \in 1..Len(ids) :
                    /\ ids[i] \in DOMAIN index
                    /\ ~IsNaN(similarity(ids[i]))
                    /\ similarity(ids[i]) >= similarity_threshold
              /\ \A i, j \in 1..Len(ids) : i < j => similarity(ids[i]) >= similarity(ids[j])
              /\ \A id \in DOMAIN index \ Range(ids) :
                    \/ IsNaN(similarity(id))
                    \/ similarity(id) < similarity_threshold
                    \/ /\ Len(ids) = 2 * retr'.limit
                       /\ \A i \in 1..Len(ids) : similarity(id) <= similarity(ids[i])]_vars

\* a search for 2 ids among three accepted vectors has returned the two of
\* similarity 1.0 and left out the one of similarity 0.9987
C27_Witness ==
    /\ retr.pc = "hydrate"
    /\ retr.limit = 1
    /\ Len(retr.similar_ids) = 2
    /\ \A i \in 1..2 : index[retr.similar_ids[i]] = retr.query_embedding[1]
    /\ \E id \in DOMAIN index \ Range(retr.similar_ids) :
          CosineSimilarity(retr.query_embedding[1], index[id]) = 9987

----------------------------------------------------------------------------
(* The dimension of the vectors the index holds *)

\* vector_store.store_vector(id, embedding, metadata) called on the index
\* itself, with a fresh id
CallStoreVector(embeddings) ==
    /\ next_id < MaxEntries
    /\ \E embedding \in embeddings : index' = StoreVector(index, next_id + 1, embedding)
    /\ next_id' = next_id + 1
    /\ UNCHANGED <<engine_vars, index_call, scored, stats, short_term_limit, memory_cache, now, adding,
                   last_add, retr, retrieves, sweeps, bg>>

\* a vector of three components, and one of 768
ThreeComponents == [len |-> 3, nan |-> FALSE, c2 |-> 0]

\* The index written by add_memory and by its other callers, and searched
NextDimension ==
    \/ AddMemory({"LongTerm"}, {<<97>>, <<97, 98>>}, {<<>>}, {3000, 9000}, {<<>>})
    \/ AddMemoryInsert
    \/ CallStoreVector({ThreeComponents, GenerateEmbedding(<<97>>)})
    \/ RetrieveMemories({<<97>>}, {<<>>}, {<<>>})
    \/ RetrieveHydrate

SpecDimension == InitDefault /\ [][NextDimension]_vars

\* C28: every vector the index holds has the dimension of the deployment,
\* the index rejecting the others.
C28_DimensionRejected ==
    \A id \in DOMAIN index : index[id].len = embedding_size

----------------------------------------------------------------------------
(* The access bookkeeping of retrieve_memories *)

\* Entries similar to the query in two categories and an entry that is not
\* similar to it, retrieved with a filter of one category and a limit of one
NextAccess ==
    \/ AddMemory({"LongTerm"}, {<<97>>, <<29483, 21674>>}, {<<>>}, {6000}, {<<>>})
    \/ AddMemory({"Emotional"}, {<<97>>}, {<<>>}, {6000}, {<<>>})
    \/ AddMemoryInsert
    \/ RetrieveMemories({<<97>>}, {<<{"LongTerm"}>>}, {<<1>>})
    \/ RetrieveHydrate

SpecAccess == InitDefault /\ [][NextAccess]_vars

\* the entry but for its access bookkeeping
Bookkept(entry) == [entry EXCEPT !.last_accessed = 0, !.access_count = 0]

\* C29: in one retrieval, exactly the entries returned have their access
\* count raised by one and their last-accessed time set to the time of the
\* call in the cache; every other cached entry is unchanged, and the copies
\* returned carry the new values.
C29_AccessBookkeeping ==
    [][HydrateStep
       => /\ DOMAIN memory_cache' = DOMAIN memory_cache
          /\ \A id \in DOMAIN memory_cache :
                IF id \in Ids(retr'.memories)
                THEN /\ memory_cache'[id].access_count = memory_cache[id].access_count + 1
                     /\ memory_cache'[id].last_accessed \in now..now'
                     /\ Bookkept(memory_cache'[id]) = Bookkept(memory_cache[id])
                ELSE memory_cache'[id] = memory_cache[id]
          /\ \A i \in 1..Len(retr'.memories) :
                retr'.memories[i] = memory_cache'[retr'.memories[i].id]]_vars

\* a retrieval has returned one entry, marked once, and has left unmarked a
\* candidate of its category beyond the limit and a cached entry that was
\* not a candidate
C29_Witness ==
    /\ retr.pc = "done"
    /\ Len(retr.memories) = 1
    /\ memory_cache[retr.memories[1].id].access_count = 1
    /\ \E beyond \in Range(retr.similar_ids) \cap DOMAIN memory_cache :
          /\ beyond # retr.memories[1].id
          /\ memory_cache[beyond].memory_type = "LongTerm"
          /\ memory_cache[beyond].access_count = 0
    /\ \E other \in DOMAIN memory_cache \ Range(retr.similar_ids) :
          memory_cache[other].access_count = 0

----------------------------------------------------------------------------
(* A sweep of a cache at or under capacity *)

\* a sweep whose cache holds no more ShortTerm entries than the limit
AtOrUnder(task) == ShortTermCount(task.cache) <= short_term_limit

\* C30: a sweep that finds no more ShortTerm entries than short_term_limit,
\* the limit itself included, removes nothing and changes no entry: the
\* background task goes back to sleep with its cache as it was, a spawned
\* task ends, no sweep goes on to rank, and the cache of the store is
\* unchanged.
C30_SweepNoOp ==
    /\ [](\A task \in Ranking : ~AtOrUnder(task))
    /\ [][(bg.pc = "count" /\ bg' # bg /\ bg.state = bg'.state /\ AtOrUnder(bg))
            => /\ bg'.pc = "sleep"
               /\ bg'.cache = bg.cache
               /\ memory_cache' = memory_cache]_vars
    /\ [][\A task \in sweeps \ sweeps' :
            (task.pc = "count" /\ AtOrUnder(task))
            => /\ sweeps' = sweeps \ {task}
               /\ memory_cache' = memory_cache]_vars

\* the background task has counted exactly short_term_limit ShortTerm
\* entries in its cache and has gone back to sleep with all of them
C30_Witness ==
    /\ bg.state = "running"
    /\ bg.pc = "sleep"
    /\ bg.short_term_count = short_term_limit
    /\ ShortTermCount(bg.cache) = short_term_limit

----------------------------------------------------------------------------
(* Sweeps interleaved with each other and with adds.  Each sweep has a     *)
(* cache of its own: the clone made when add_memory spawned it, or the     *)
(* clone start_background_cleanup made.                                    *)

\* C31: however the sweeps that adds have spawned, the background sweep and
\* the adds interleave, a cache that holds more than short_term_limit
\* ShortTerm entries never comes to hold fewer than short_term_limit: the
\* count a sweep took in its first scan is still the count of its cache at
\* its second scan, what it removes leaves short_term_limit entries, and no
\* step takes the cache of the store or of the background task below the
\* limit.
C31_NoOverEviction ==
    /\ [](\A task \in Ranking :
            /\ task.short_term_count = ShortTermCount(task.cache)
            /\ \A left \in CleanupEvict(task.cache, task.short_term_count, short_term_limit) :
                  ShortTermCount(left) >= short_term_limit)
    /\ [][ShortTermCount(bg.cache) > short_term_limit
            => ShortTermCount(bg'.cache) >= short_term_limit]_vars
    /\ [][ShortTermCount(memory_cache) > short_term_limit
            => ShortTermCount(memory_cache') >= short_term_limit]_vars

\* the background sweep has removed the excess of its cache while a sweep
\* spawned by an add is between its two scans
C31_Witness ==
    /\ bg.state = "running"
    /\ bg.pc = "sleep"
    /\ bg.short_term_count > short_term_limit
    /\ ShortTermCount(bg.cache) = short_term_limit
    /\ \E task \in sweeps : task.pc = "rank"

----------------------------------------------------------------------------
(* The order of truncation and sorting in retrieve_memories *)

\* Entries of two importances with the same text, which the index returns
\* in either order, retrieved with a limit of one and of two
NextTruncate ==
    \/ AddMemory({"LongTerm"}, {<<97>>}, {<<>>}, {3000, 9000}, {<<>>})
    \/ AddMemoryInsert
    \/ RetrieveMemories({<<97>>}, {<<>>}, {<<1>>, <<2>>})
    \/ RetrieveHydrate

SpecTruncate == InitDefault /\ [][NextTruncate]_vars

\* the candidate at position i of a call is in the cache and passes the
\* call's filter
Qualifies(call, cache, i) ==
    /\ call.similar_ids[i] \in DOMAIN cache
    /\ PassesFilter(call.memory_types, cache[call.similar_ids[i]])

\* the number of qualifying candidates of a call before position i
QualifyingBefore(call, cache, i) ==
    Cardinality({j \in 1..(i - 1) : Qualifies(call, cache, j)})

\* C32: a retrieval returns the candidate at a position of the index's
\* answer exactly when it qualifies and fewer than limit candidates before
\* it qualify, whatever the importances: min(limit, m) entries for m
\* qualifying candidates; the entries returned are then in descending order
\* of importance.
C32_TruncateThenSort ==
    [][HydrateStep
       => LET m == QualifyingBefore(retr, memory_cache, Len(retr.similar_ids) + 1)
          IN  /\ \A i \in 1..Len(retr.similar_ids) :
                    retr.similar_ids[i] \in Ids(retr'.memories)
                    <=> /\ Qualifies(retr, memory_cache, i)
                        /\ QualifyingBefore(retr, memory_cache, i) < retr.limit
              /\ Len(retr'.memories) = IF retr.limit < m THEN retr.limit ELSE m
              /\ \A i \in 1..(Len(retr'.memories) - 1) :
                    ~RetrieveIsLess(retr'.memories[i + 1], retr'.memories[i])]_vars

\* a retrieval with a limit of one has returned an entry and left out a
\* qualifying candidate of greater importance
C32_Witness ==
    /\ retr.pc = "done"
    /\ retr.limit = 1
    /\ Len(retr.memories) = 1
    /\ \E id \in Range(retr.similar_ids) \cap DOMAIN memory_cache :
          /\ memory_cache[id].access_count = 0
          /\ memory_cache[id].importance > retr.memories[1].importance

----------------------------------------------------------------------------
(* The effect of a successful add_memory and the order of its two stores *)

\* the step is the return of Ok(memory_id) by an add_memory call
AddReturnsOk == last_add' # last_add /\ last_add'.status = "Ok"

\* C33: an add_memory that returns Ok(id) has inserted one entry into the
\* cache under id, an id the cache did not hold, and has changed no other
\* entry of the cache; a call whose embedding succeeded has stored the
\* vector in the index before it inserts, so that every cached entry that
\* carries an embedding has its id in the index.
C33_AddEffect ==
    /\ [][AddReturnsOk
            => /\ last_add'.id \notin DOMAIN memory_cache
               /\ DOMAIN memory_cache' = DOMAIN memory_cache \cup {last_add'.id}
               /\ memory_cache'[last_add'.id].id = last_add'.id
               /\ \A id \in DOMAIN memory_cache : memory_cache'[id] = memory_cache[id]]_vars
    /\ [](\A entry \in adding :
             entry.id \in DOMAIN index /\ entry.id \notin DOMAIN memory_cache)
    /\ [](\A id \in DOMAIN memory_cache :
             memory_cache[id].embedding # <<>> => id \in DOMAIN index)

\* an add_memory has returned Ok for an entry with an embedding, added to a
\* cache that held an entry already
C33_Witness ==
    /\ last_add.status = "Ok"
    /\ last_add.id \in DOMAIN memory_cache
    /\ memory_cache[last_add.id].embedding # <<>>
    /\ last_add.id \in DOMAIN index
    /\ Cardinality(DOMAIN memory_cache) >= 2

----------------------------------------------------------------------------
(* The intensity process_trigger works with *)

\* a scalar moved by the whole delta and kept in [0, 1]
FullStep(value, delta) ==
    IF value + delta < 0 THEN 0 ELSE IF value + delta > One THEN One ELSE value + delta

\* C34: when process_trigger finds a rule and is given an intensity that is
\* a number, an intensity of 0 or less leaves the four scalars as they were
\* while the mood and the timestamp are set; an intensity of 1 or more, 1.5
\* for three praise keywords, moves each scalar as an intensity of 1 does;
\* and no intensity moves a scalar by more than the rule's delta.
C34_IntensityClamped ==
    [][(RuleStep /\ ~IsNaN(last_call'.intensity))
       => LET rule == DefaultRules[last_call'.trigger]
              intensity == last_call'.intensity
          IN  /\ intensity <= 0
                 => /\ \A name \in ScalarNames : engine_state'[name] = engine_state[name]
                    /\ engine_state'.mood = rule.mood_change[1]
                    /\ engine_state'.timestamp = clock'
              /\ \A name \in ScalarNames :
                    ~IsNaN(engine_state[name])
                    => /\ intensity >= One
                          => engine_state'[name] = FullStep(engine_state[name], DeltaOf(rule, name))
                       /\ FAbs(engine_state'[name] - engine_state[name])
                             <= FAbs(DeltaOf(rule, name))]_vars

\* being praised at intensity 1.5 has raised the scalars of the default
\* state by the rule's deltas and no more
C34_Witness ==
    /\ last_call.op = "process_trigger"
    /\ last_call.trigger = "BeingPraised"
    /\ last_call.intensity = 15000
    /\ engine_state.happiness = DefaultEmotionalState.happiness + 1500
    /\ engine_state.affection = DefaultEmotionalState.affection + 1000
    /\ engine_state.mood = "shy"
    /\ engine_state.timestamp = clock

----------------------------------------------------------------------------
(* The triggers of one interaction applied in sequence, and the decay that *)
(* follows                                                                 *)

\* one turn of the engine's caller: analyze_interaction, then process_trigger
\* for each trigger it returned, the state of one call passed to the next
CallInteraction(inputs, memory_lists, durations) ==
    /\ engine_calls < MaxEngineCalls
    /\ engine_calls' = engine_calls + 1
    /\ \E user_input \in inputs, memories \in memory_lists, duration \in durations :
          /\ clock' = clock + duration
          /\ analysis' = [user_input |-> user_input, memories |-> memories,
                          triggers |-> AnalyzeInteraction(user_input, memories)]
          /\ last_call' = [op |-> "interaction", trigger |-> "", intensity |-> 0,
                           duration |-> duration]
          /\ engine_state' = ProcessTriggers(DefaultRules, engine_state,
                                             analysis'.triggers, clock')
    /\ UNCHANGED <<memory_vars, current_emotion, emotion_calls>>

\* The texts of a turn: "Hi"; the text of the repository's test (a praise
\* and a positive keyword); a negative keyword; keywords of all three
\* categories
TurnInputs ==
    {<<72, 105>>,
     <<20320, 30495, 32874, 26126, 65281, 25105, 24456, 21916, 27426, 20320>>,
     <<35752, 21388>>,
     <<22909, 31967, 31957, 21385, 23475>>}

\* The memories of a turn: none, and 11 short-term ones
TurnMemories == {<<>>, Memories("ShortTerm", 11)}

\* The time between two calls, in half hours: none, and more than ten days
TurnDurations == {0, 500}

\* Turns of the engine's caller and decays, at once, within a day, after a
\* day and after more than ten days
NextInteraction ==
    \/ CallInteraction(TurnInputs, TurnMemories, TurnDurations)
    \/ CallApplyTimeDecay(Durations)

SpecInteraction ==
    InitMemory({DefaultShortTermLimit}) /\ InitEmotion(StartStates) /\ [][NextInteraction]_vars

\* the step is a turn of the caller
TurnStep == engine_calls' # engine_calls /\ last_call'.op = "interaction"

\* the positions of the triggers for which a rule is registered
Fired(triggers) == {i \in 1..Len(triggers) : triggers[i].trigger \in DOMAIN DefaultRules}

\* the greatest of a set of numbers that is not empty
Last(S) == CHOOSE i \in S : \A j \in S : j <= i

\* C35: after the triggers analyze_interaction returned were applied in
\* sequence, the mood is the one the rule of the last trigger that has a
\* rule sets and the timestamp is the time of the turn, and without such a
\* trigger the state is the one before the turn; an apply_time_decay called
\* after a turn in which a rule fired, before a decay interval has passed,
\* returns the state unchanged.
C35_FoldAndReset ==
    /\ [][TurnStep
            => LET triggers == analysis'.triggers
               IN  IF Fired(triggers) = {}
                   THEN engine_state' = engine_state
                   ELSE /\ engine_state'.mood =
                              DefaultRules[triggers[Last(Fired(triggers))].trigger].mood_change[1]
                        /\ engine_state'.timestamp = clock']_vars
    /\ [][(/\ DecayStep
           /\ last_call.op = "interaction"
           /\ Fired(analysis.triggers) # {}
           /\ last_call'.duration < IntervalHalfHours)
          => engine_state' = engine_state]_vars

\* a decay called at once after a turn that fired the positive and the
\* praise rule has returned the state of the turn, whose mood is the one of
\* the praise rule
C35_Witness ==
    /\ last_call.op = "apply_time_decay"
    /\ last_call.duration = 0
    /\ TriggerNames(analysis.triggers) = <<"PositiveInteraction", "BeingPraised">>
    /\ engine_state.mood = "shy"
    /\ engine_state.timestamp = clock
    /\ engine_state.happiness > DefaultEmotionalState.happiness

----------------------------------------------------------------------------
(* The decay of a scalar on either side of its floor *)

\* C36: when apply_time_decay decays, a scalar below its floor is raised by
\* the decay factor times its distance to the floor and ends at or below
\* the floor; a scalar at its floor is unchanged; a scalar above its floor
\* ends at or above it.
C36_DecaySymmetric ==
    [][(DecayStep /\ clock' - engine_state.timestamp >= IntervalHalfHours)
       => \A name \in ScalarNames :
             LET start == engine_state[name]
                 floor == minimum_values[name]
                 end == engine_state'[name]
                 decay_factor == DecayFactor(NumHours(clock' - engine_state.timestamp))
             IN  ~IsNaN(start)
                 => /\ start < floor
                       => /\ end = start + RoundDiv((floor - start) * decay_factor, One)
                          /\ start < end
                          /\ end <= floor
                    /\ start = floor => end = floor
                    /\ start > floor => end >= floor]_vars

\* a decay after 250 hours has raised every scalar of the lowest state half
\* of the way to its floor
C36_Witness ==
    /\ last_call.op = "apply_time_decay"
    /\ last_call.duration = 500
    /\ engine_state.timestamp = clock
    /\ engine_state.happiness = 1500
    /\ engine_state.affection = 1000
    /\ engine_state.trust = 1000
    /\ engine_state.dependency = 500

----------------------------------------------------------------------------
(* The abort of the background cleanup task *)

\* the store of examples/main.rs with the default short_term_limit: the
\* background cleanup task is started before the first add, with a clone of
\* the empty cache
InitStarted ==
    /\ InitEmotion({NewEmotionalState(0)})
    /\ short_term_limit = DefaultShortTermLimit
    /\ memory_cache = <<>>
    /\ index = <<>>
    /\ now = 0
    /\ next_id = 0
    /\ adding = {}
    /\ last_add = [status |-> "none", id |-> 0]
    /\ scored = <<>>
    /\ stats = NoStats
    /\ retr = NoRetrieve
    /\ retrieves = 0
    /\ sweeps = {}
    /\ bg = [NoBackground EXCEPT !.state = "running"]
    /\ index_call = NoIndexCall

\* ShortTerm entries added and retrieved while the cleanup tasks of the adds
\* and the background cleanup task run and the background task is aborted
NextCancel ==
    \/ AddMemory({"ShortTerm"}, {<<97>>}, {<<>>}, {6000}, {<<>>})
    \/ AddMemoryInsert
    \/ CleanupCount
    \/ BackgroundWake
    \/ BackgroundCount
    \/ AbortBackgroundCleanup
    \/ RetrieveMemories({<<97>>}, {<<>>}, {<<1>>})
    \/ RetrieveHydrate

SpecCancel == InitStarted /\ [][NextCancel]_vars

\* the step is the abort of the background task
AbortStep == bg.state = "running" /\ bg'.state = "aborted"

\* C37: the abort changes nothing but the background task, which does not
\* wake again; with the background task aborted, an add that awaits the
\* index goes on to insert its entry and returns Ok with its id, a retrieval
\* that has its candidates returns what the cache gives for them, an add of
\* a ShortTerm entry spawns a cleanup task with the cache of that moment,
\* and a cleanup task that counts goes on to rank exactly when its cache
\* holds more ShortTerm entries than the limit.
C37_CancellationScope ==
    /\ [][AbortStep
            => /\ bg' = [bg EXCEPT !.state = "aborted"]
               /\ UNCHANGED <<memory_cache, index, now, next_id, adding, last_add, retr,
                              retrieves, sweeps, short_term_limit>>]_vars
    /\ [][bg.state = "aborted"
            => /\ bg'.state = "aborted"
               /\ bg.pc = "sleep" => bg' = bg]_vars
    /\ [][bg.state = "aborted"
            => \A task \in sweeps \ sweeps' :
                  task.pc = "count"
                  => IF ShortTermCount(task.cache) > short_term_limit
                     THEN \E ranking \in sweeps' \ sweeps :
                             /\ ranking.pc = "rank"
                             /\ ranking.id = task.id
                             /\ ranking.cache = task.cache
                     ELSE sweeps' = sweeps \ {task}]_vars
    /\ [][(bg.state = "aborted" /\ adding # {} /\ adding' # adding)
            => \E entry \in adding :
                  /\ memory_cache' = CacheInsert(memory_cache, entry)
                  /\ last_add' = [status |-> "Ok", id |-> entry.id]
                  /\ \E task \in sweeps' \ sweeps :
                        task.id = entry.id /\ task.cache = memory_cache']_vars
    /\ [][(bg.state = "aborted" /\ retr.pc = "hydrate" /\ retr'.pc = "done")
            => \E out \in HydrateLoop(retr, 1, memory_cache, <<>>, now) :
                  /\ retr'.memories = RetrieveSort(out.memories)
                  /\ memory_cache' = out.cache]_vars

\* with the background task aborted, an add of a ShortTerm entry has
\* returned Ok, after another, and the cleanup task it spawned holds its
\* clone of the cache, and a retrieval has returned an entry
C37_Witness ==
    /\ bg.state = "aborted"
    /\ last_add.status = "Ok"
    /\ \E task \in sweeps :
          /\ task.id = last_add.id
          /\ task.pc = "count"
          /\ Cardinality(DOMAIN task.cache) >= 2
    /\ retr.pc = "done"
    /\ retr.memories # <<>>


----------------------------------------------------------------------------
(* store_vector and delete_vector on the in-process index *)

\* vector_store.store_vector(id, embedding, metadata) with an id the caller
\* chooses: the call records whether the id was stored when it was made
CallStoreVectorAt(ids, embeddings, payloads) ==
    /\ \E id \in ids, embedding \in embeddings, metadata \in payloads :
          /\ index' = StoreVector(index, id, VectorData(embedding, metadata))
          /\ index_call' = [op |-> "store_vector", id |-> id,
                            data |-> <<VectorData(embedding, metadata)>>,
                            present |-> id \in DOMAIN index, result |-> "Ok",
                            found |-> <<>>]
    /\ UNCHANGED <<engine_vars, scored, stats, short_term_limit, memory_cache, now, next_id,
                   adding, last_add, retr, retrieves, sweeps, bg>>

\* vector_store.delete_vector(id)
CallDeleteVector(ids) ==
    /\ \E id \in ids :
          LET deleted == DeleteVector(index, id)
          IN  /\ index' = deleted.data
              /\ index_call' = [op |-> "delete_vector", id |-> id, data |-> <<>>,
                                present |-> id \in DOMAIN index,
                                result |-> deleted.result, found |-> <<>>]
    /\ UNCHANGED <<engine_vars, scored, stats, short_term_limit, memory_cache, now, next_id,
                   adding, last_add, retr, retrieves, sweeps, bg>>

\* vector_store.search_similar(query_embedding, limit, threshold)
CallSearchSimilar(queries, limits, thresholds) ==
    /\ \E query_embedding \in queries, limit \in limits, threshold \in thresholds :
          \E found \in SearchSimilar(index, query_embedding, limit, threshold) :
              index_call' = [op |-> "search_similar", id |-> 0, data |-> <<>>,
                             present |-> FALSE, result |-> "Ok", found |-> found]
    /\ UNCHANGED <<engine_vars, scored, stats, short_term_limit, memory_cache, now, next_id,
                   adding, last_add, retr, retrieves, sweeps, bg, index>>

\* the ids, the embeddings (of "a" and of "ab") and the payloads of the calls
IndexIds == 1..MaxEntries

IndexEmbeddings == {GenerateEmbedding(<<97>>), GenerateEmbedding(<<97, 98>>)}

IndexPayloads == {<<97>>, <<98>>}

IndexLimits == {1, 2}

\* The index written, deleted from and searched by its callers
NextIndex ==
    \/ CallStoreVectorAt(IndexIds, IndexEmbeddings, IndexPayloads)
    \/ CallDeleteVector(IndexIds)
    \/ CallSearchSimilar({GenerateEmbedding(<<97>>)}, IndexLimits, {similarity_threshold})

SpecIndex == InitDefault /\ [][NextIndex]_vars

\* the step is a call of the named operation on the index
IndexStep(op) == index_call' # index_call /\ index_call'.op = op

\* the other ids keep their vectors and payloads
OthersKept(id) ==
    /\ DOMAIN index' \ {id} = DOMAIN index \ {id}
    /\ \A other \in DOMAIN index \ {id} : index'[other] = index[other]

\* C38: a store with an id already stored replaces the vector and the payload
\* of that id and leaves the number of stored vectors as it was; a delete of
\* a stored id returns Ok and removes the id, and a search returns stored ids
\* only, so no later search returns it; a delete of an id that is not stored
\* returns an error and leaves the index as it was.
C38_StoreDelete ==
    /\ [][IndexStep("store_vector")
            => LET id == index_call'.id
               IN  /\ index_call'.result = "Ok"
                   /\ id \in DOMAIN index'
                   /\ index'[id] = index_call'.data[1]
                   /\ OthersKept(id)
                   /\ id \in DOMAIN index
                        => Cardinality(DOMAIN index') = Cardinality(DOMAIN index)]_vars
    /\ [][IndexStep("delete_vector") /\ index_call'.id \in DOMAIN index
            => /\ index_call'.result = "Ok"
               /\ index_call'.id \notin DOMAIN index'
               /\ OthersKept(index_call'.id)]_vars
    /\ [][IndexStep("delete_vector") /\ index_call'.id \notin DOMAIN index
            => /\ index_call'.result = "Err"
               /\ index' = index]_vars
    /\ [][IndexStep("search_similar")
            => \A i \in 1..Len(index_call'.found) :
                  index_call'.found[i] \in DOMAIN index]_vars

\* a stored id was deleted while other vectors stay stored
C38_Witness ==
    /\ index_call.op = "delete_vector"
    /\ index_call.present
    /\ index_call.result = "Ok"
    /\ index_call.id \notin DOMAIN index
    /\ Cardinality(DOMAIN index) >= 2

============================================================================
